---- MODULE Spec2Model ----
(***************************************************************************)
(* State-machine model of the real-time chess engine in src/It1_interfaces *)
(* (Piece, State, PieceFactory, Moves, Game).  Times are milliseconds of   *)
(* game time.  Physics.py and Command.py are not part of the sources; the  *)
(* Physics* and Command operators are written from the specification.      *)
(***************************************************************************)
EXTENDS Integers, Sequences, FiniteSets, TLC

VARIABLES
    pieces,            \* Game.pieces: piece_id -> Piece (the live set)
    clock,             \* what Game.game_time_ms() returns
    user_input_queue,  \* Game.user_input_queue, FIFO of Command
    selection,         \* Game.selection: player -> piece_id selected, or ""
    pc,                \* position of Game.run
    last,              \* the last call made: operation, arguments, path taken
    captured,          \* the payloads of the PIECE_CAPTURED events published,
                       \* in the order of publication
    event_bus,         \* whether the Game was constructed with an event bus
    deleted,           \* the Piece objects deleted from Game.pieces, by id
    factory,           \* the PieceFactory: the state directories of the piece
                       \* directory it reads, and its piece_templates cache
    _should_quit,      \* Game._should_quit
    moves,             \* the Moves objects: piece directory -> move_deltas
    subscribers,       \* EventBus.subscribers: event type -> list of
                       \* subscribers
    received           \* the calls of update the subscribers have received,
                       \* in order

vars == <<pieces, clock, user_input_queue, selection, pc, last, captured,
          event_bus, deleted, factory, _should_quit, moves,
                   subscribers, received>>

----------------------------------------------------------------------------
(* Bounds of the model *)

\* Board.H_cells and Board.W_cells of the boards explored
BoardH == 3
BoardW == 2
\* the clock is explored up to MaxTicks steps of ClockStep milliseconds
MaxTicks == 5
\* a game is explored up to MaxGameTicks steps of ClockStep milliseconds
MaxGameTicks == 3
\* longest input queue explored
MaxQueue == 1
MaxBurst == 2

(* Program constants *)

cooldown_duration == 2000
LongRestMs == 2000
ShortRestMs == 1000

ClockStep == 1000
MaxTime == MaxTicks * ClockStep

Cells == (0 .. BoardH - 1) \X (0 .. BoardW - 1)
NoCell == <<>>
Abs(x) == IF x < 0 THEN -x ELSE x

----------------------------------------------------------------------------
(* EventBus *)

\* EventBus.__init__: self.subscribers = {}
NoSubscribers == [event_type \in {} |-> <<>>]

\* what subscriber.update(event_type, data) is called with
Update(subscriber, event_type, data) ==
    [subscriber |-> subscriber, event_type |-> event_type, data |-> data]

\* EventBus.subscribe(event_type, subscriber)
subscribe(subs, event_type, subscriber) ==
    LET listed == IF event_type \in DOMAIN subs
                  THEN subs
                  ELSE [k \in DOMAIN subs \cup {event_type} |->
                           IF k = event_type THEN <<>> ELSE subs[k]]
    IN  [listed EXCEPT ![event_type] = Append(@, subscriber)]

\* list.remove(x): the list without the first x
list_remove(l, x) ==
    LET i == CHOOSE i \in 1 .. Len(l) :
                 l[i] = x /\ \A j \in 1 .. i - 1 : l[j] # x
    IN  SubSeq(l, 1, i - 1) \o SubSeq(l, i + 1, Len(l))

\* whether unsubscribe raises: list.remove(x) with x not in the list
unsubscribe_raises(subs, event_type, subscriber) ==
    /\ event_type \in DOMAIN subs
    /\ \A i \in 1 .. Len(subs[event_type]) : subs[event_type][i] # subscriber

\* EventBus.unsubscribe(event_type, subscriber), when it does not raise
unsubscribe(subs, event_type, subscriber) ==
    IF event_type \in DOMAIN subs
    THEN LET rest == list_remove(subs[event_type], subscriber)
         IN  IF rest = <<>>
             THEN [k \in DOMAIN subs \ {event_type} |-> subs[k]]
             ELSE [subs EXCEPT ![event_type] = rest]
    ELSE subs

\* the event types of It1_interfaces.EventTypes, in a fixed order
EventTypes == <<"GAME_STARTED", "MOVE_DONE", "PIECE_CAPTURED", "GAME_ENDED">>

\* a publish that calls the subscribers of every event type
RECURSIVE publish_to_all_from(_, _, _, _, _)
publish_to_all_from(subs, log, event_type, data, k) ==
    IF k > Len(EventTypes) THEN log
    ELSE publish_to_all_from(subs,
             IF EventTypes[k] \in DOMAIN subs
             THEN log \o [i \in 1 .. Len(subs[EventTypes[k]]) |->
                            Update(subs[EventTypes[k]][i], event_type, data)]
             ELSE log,
             event_type, data, k + 1)

publish_to_all(subs, log, event_type, data) ==
    publish_to_all_from(subs, log, event_type, data, 1)

\* EventBus.publish(event_type, data): the calls of update received after
\* it, log being those received before
publish(subs, log, event_type, data) ==
    IF event_type \in DOMAIN subs
    THEN log \o [i \in 1 .. Len(subs[event_type]) |->
                   Update(subs[event_type][i], event_type, data)]
    ELSE log

\* the bus a Game is given in the explored games: one observer of the
\* start and of the end of the game; no bus when has_bus is FALSE
GameSubscribers(has_bus) ==
    IF has_bus
    THEN subscribe(subscribe(NoSubscribers, "GAME_STARTED", "observer"),
                   "GAME_ENDED", "observer")
    ELSE NoSubscribers

----------------------------------------------------------------------------
(* Command (from the specification: timestamp, piece_id, kind, optional     *)
(* source and destination cell)                                             *)

Command(timestamp, piece_id, type, src, dst) ==
    [timestamp |-> timestamp, piece_id |-> piece_id, type |-> type,
     src |-> src, dst |-> dst]

create_move_command(timestamp, piece_id, src, dst) ==
    Command(timestamp, piece_id, "Move", src, dst)

create_idle_command(timestamp, piece_id) ==
    Command(timestamp, piece_id, "idle", NoCell, NoCell)

get_source_cell(cmd) == cmd.src
get_target_cell(cmd) == cmd.dst

----------------------------------------------------------------------------
(* Physics (from the specification): the cell a piece stands on, the cell   *)
(* it moves to, whether its motion is in flight, and the cell get_pos()     *)
(* reports.                                                                 *)

Physics(start_cell) ==
    [current_cell |-> start_cell, target_cell |-> start_cell,
     is_moving |-> FALSE, pos |-> start_cell]

\* Physics.reset(cmd): restart the motion from this command
PhysicsReset(ph, cmd) ==
    IF cmd.type = "Move" /\ get_target_cell(cmd) # NoCell
    THEN [ph EXCEPT !.target_cell = get_target_cell(cmd), !.is_moving = TRUE]
    ELSE IF cmd.type = "Jump"
    THEN [ph EXCEPT !.target_cell = ph.current_cell, !.is_moving = TRUE]
    ELSE [ph EXCEPT !.is_moving = FALSE]

\* Physics.update(now): the outcomes a motion in flight can have in one tick
PhysicsOutcomes(ph) ==
    IF ph.is_moving THEN {"flying", "arrived", "complete"} ELSE {"still"}

\* Physics.update(now) under outcome o; the second component is the
\* movement_complete flag it returns
PhysicsUpdate(ph, o) ==
    CASE o = "complete" ->
           <<[ph EXCEPT !.current_cell = ph.target_cell, !.pos = ph.target_cell,
                        !.is_moving = FALSE], TRUE>>
      [] o = "arrived" -> <<[ph EXCEPT !.pos = ph.target_cell], FALSE>>
      [] OTHER -> <<ph, FALSE>>

get_pos(ph) == ph.pos

----------------------------------------------------------------------------
(* PieceFactory: the template state graph *)

\* the state directories found under <piece>/states
StateDirs == {"idle", "move", "jump", "long_rest", "short_rest"}

\* _get_missing_states requiring idle and move only
_get_missing_states_no_rest(states) == {"idle", "move"} \ states

_get_missing_states(states) == {"idle", "move", "long_rest"} \ states

\* the state names of the template map _build_state_machine returns
TemplateStates(dirs) == dirs \cup _get_missing_states(dirs)

is_rest_state(name) == name \in {"long_rest", "short_rest"}

rest_duration_ms(name) ==
    IF name = "long_rest" THEN LongRestMs
    ELSE IF name = "short_rest" THEN ShortRestMs
    ELSE 0

\* _setup_transitions sending a finished long_rest back to move
_setup_transitions_rest_to_move(states) ==
    (IF "idle" \in states
     THEN (IF "move" \in states THEN {<<"idle", "Move", "move">>} ELSE {})
          \cup (IF "jump" \in states THEN {<<"idle", "Jump", "jump">>} ELSE {})
     ELSE {})
    \cup (IF "move" \in states /\ "long_rest" \in states
          THEN {<<"move", "complete", "long_rest">>,
                <<"long_rest", "timeout", "move">>}
          ELSE {})
    \cup (IF "jump" \in states /\ "short_rest" \in states
          THEN {<<"jump", "complete", "short_rest">>} ELSE {})
    \cup (IF "short_rest" \in states /\ "idle" \in states
          THEN {<<"short_rest", "timeout", "idle">>} ELSE {})

\* _setup_transitions sending a finished jump to idle whether or not
\* short_rest exists
_setup_transitions_jump_to_idle(states) ==
    (IF "idle" \in states
     THEN (IF "move" \in states THEN {<<"idle", "Move", "move">>} ELSE {})
          \cup (IF "jump" \in states
                THEN {<<"idle", "Jump", "jump">>, <<"jump", "complete", "idle">>}
                ELSE {})
          \cup (IF "attack" \in states
                THEN {<<"idle", "Attack", "attack">>,
                      <<"attack", "complete", "idle">>}
                ELSE {})
          \cup (IF "long_rest" \in states
                THEN {<<"long_rest", "timeout", "idle">>} ELSE {})
          \cup (IF "short_rest" \in states
                THEN {<<"short_rest", "timeout", "idle">>} ELSE {})
          \cup (IF "move" \in states /\ "long_rest" \notin states
                THEN {<<"move", "complete", "idle">>} ELSE {})
     ELSE {})
    \cup (IF "move" \in states /\ "long_rest" \in states
          THEN {<<"move", "complete", "long_rest">>} ELSE {})

\* _setup_transitions: the set of edges <<state, event, target>>
_setup_transitions(states) ==
    (IF "idle" \in states
     THEN (IF "move" \in states THEN {<<"idle", "Move", "move">>} ELSE {})
          \cup (IF "jump" \in states THEN {<<"idle", "Jump", "jump">>} ELSE {})
          \cup (IF "attack" \in states
                THEN {<<"idle", "Attack", "attack">>} ELSE {})
     ELSE {})
    \cup (IF "move" \in states
          THEN IF "long_rest" \in states
               THEN {<<"move", "complete", "long_rest">>}
               ELSE IF "idle" \in states
               THEN {<<"move", "complete", "idle">>} ELSE {}
          ELSE {})
    \cup (IF "jump" \in states
          THEN IF "short_rest" \in states
               THEN {<<"jump", "complete", "short_rest">>}
               ELSE IF "idle" \in states
               THEN {<<"jump", "complete", "idle">>} ELSE {}
          ELSE {})
    \cup (IF "long_rest" \in states /\ "idle" \in states
          THEN {<<"long_rest", "timeout", "idle">>} ELSE {})
    \cup (IF "short_rest" \in states /\ "idle" \in states
          THEN {<<"short_rest", "timeout", "idle">>} ELSE {})
    \cup (IF "attack" \in states /\ "idle" \in states
          THEN {<<"attack", "complete", "idle">>} ELSE {})

\* a State the factory makes for a template: the fields State.__init__ and
\* the rest configuration give it
TemplateState(name) ==
    [is_rest_state |-> is_rest_state(name),
     rest_duration_ms |-> rest_duration_ms(name),
     state_start_time |-> 0]

\* the states _build_state_machine makes from the state directories
states_from_dirs(dirs) == [name \in dirs |-> TemplateState(name)]

\* _create_missing_states leaving the rest configuration out
_create_missing_states_plain(dirs) ==
    [name \in _get_missing_states(dirs) |->
        [is_rest_state |-> FALSE, rest_duration_ms |-> 0,
         state_start_time |-> 0]]

\* _create_missing_states: the states made for the missing names
_create_missing_states(dirs) ==
    [name \in _get_missing_states(dirs) |-> TemplateState(name)]

\* PieceFactory._build_state_machine on a piece directory whose states
\* directory holds dirs: the names of the state map, its transitions and
\* the State of every name
_build_state_machine(dirs) ==
    [states |-> TemplateStates(dirs),
     edges |-> _setup_transitions(TemplateStates(dirs)),
     nodes |-> [name \in TemplateStates(dirs) |->
                   IF name \in dirs THEN states_from_dirs(dirs)[name]
                   ELSE _create_missing_states(dirs)[name]]]

\* the factory of the games: its templates are built from StateDirs
GameFactory ==
    [states_dirs |-> StateDirs,
     piece_templates |-> _build_state_machine(StateDirs)]

\* the edges of the template graph the pieces are created from
Edges == factory.piece_templates.edges

\* State.transitions of a state named name: event -> target name
transitions(name) == {<<e[2], e[3]>> : e \in {x \in Edges : x[1] = name}}

HasTransition(name, event) == \E t \in transitions(name) : t[1] = event

Target(name, event) ==
    (CHOOSE t \in transitions(name) : t[1] = event)[2]

\* the nodes of the state graphs are <<graph, name>>: graph is "template"
\* for the map the factory caches, and the piece_id for the states
\* create_piece makes for one piece

\* the transition table _setup_transitions gives the template state name
template_transitions(name) ==
    [event \in {t[1] : t \in transitions(name)} |->
        <<"template", Target(name, event)>>]

\* create_piece handing the template's table to the new state as it is
instance_transitions_shared(id, name) == template_transitions(name)

\* the transition table create_piece gives the state name of piece id:
\* every event of the template, retargeted at the piece's own new_states
instance_transitions(id, name) ==
    [event \in DOMAIN template_transitions(name) |->
        <<id, template_transitions(name)[event][2]>>]

\* node.transitions
NodeTransitions(node) ==
    IF node[1] = "template" THEN template_transitions(node[2])
    ELSE instance_transitions(node[1], node[2])

\* node.is_rest_state and node.rest_duration_ms: create_piece gives the
\* states of a piece the values of the template state of that name
NodeRest(node) == factory.piece_templates.nodes[node[2]]

----------------------------------------------------------------------------
(* State *)

\* a live State: the fields of State.__init__ that the engine reads
State(name, physics) ==
    [state |-> name,
     is_rest_state |-> is_rest_state(name),
     rest_duration_ms |-> rest_duration_ms(name),
     state_start_time |-> 0,
     transitions |-> [event \in {} |-> <<>>],
     node |-> <<"", name>>,
     physics |-> physics]

\* State.reset(cmd) leaving the start time of the copied state
StateReset_keep_start(s, cmd) ==
    [s EXCEPT !.physics = PhysicsReset(s.physics, cmd)]

\* State.reset(cmd)
StateReset(s, cmd) ==
    [s EXCEPT !.state_start_time = cmd.timestamp,
              !.physics = PhysicsReset(s.physics, cmd)]

\* the template map after State.reset has written s in place: the write
\* lands in the map when s is one of its states
TemplatesAfterReset(f, s) ==
    IF s.node[1] = "template"
    THEN [f EXCEPT !.piece_templates.nodes[s.node[2]].state_start_time =
                       s.state_start_time]
    ELSE f

\* can_transition with the boundary excluded (> for >=)
can_transition_strict(s, now_ms) ==
    IF s.is_rest_state
    THEN now_ms - s.state_start_time > s.rest_duration_ms
    ELSE TRUE

\* State.can_transition(now_ms)
can_transition(s, now_ms) ==
    IF s.is_rest_state
    THEN now_ms - s.state_start_time >= s.rest_duration_ms
    ELSE TRUE

\* the new State built on a transition to the state named target: a copy
\* (a new object) that takes the name, rest metadata and transition table
\* of the target state, keeps the position context, and is reset with the
\* triggering command
NextState(s, target, cmd) ==
    StateReset([s EXCEPT !.state = target,
                         !.is_rest_state =
                             NodeRest(s.transitions[cmd.type]).is_rest_state,
                         !.rest_duration_ms =
                             NodeRest(s.transitions[cmd.type]).rest_duration_ms,
                         !.transitions =
                             NodeTransitions(s.transitions[cmd.type]),
                         !.node = <<"copy", target>>], cmd)

\* State.get_state_after_command(cmd, now_ms); changed tells whether the
\* returned object is a new one (the caller compares identities)
get_state_after_command(s, cmd, now_ms) ==
    IF ~can_transition(s, now_ms)
    THEN [changed |-> FALSE, state |-> s]
    ELSE IF HasTransition(s.state, cmd.type)
    THEN [changed |-> TRUE,
          state |-> NextState(s, Target(s.state, cmd.type), cmd)]
    ELSE [changed |-> FALSE, state |-> s]

\* State.update that follows complete transitions only
StateUpdate_complete_only(s, now_ms, o) ==
    LET r == PhysicsUpdate(s.physics, o)
        s1 == [s EXCEPT !.physics = r[1]]
    IN  IF r[2] /\ HasTransition(s.state, "complete")
        THEN [changed |-> TRUE,
              state |-> NextState(s1, Target(s.state, "complete"),
                                  Command(now_ms, "", "complete", NoCell, NoCell))]
        ELSE [changed |-> FALSE, state |-> s1]

\* State.update(now_ms) when Physics.update has outcome o
StateUpdate(s, now_ms, o) ==
    LET r == PhysicsUpdate(s.physics, o)
        s1 == [s EXCEPT !.physics = r[1]]
    IN  IF r[2] /\ HasTransition(s.state, "complete")
        THEN [changed |-> TRUE,
              state |-> NextState(s1, Target(s.state, "complete"),
                                  Command(now_ms, "", "complete", NoCell, NoCell))]
        ELSE IF s1.is_rest_state /\ can_transition(s1, now_ms)
                /\ HasTransition(s.state, "timeout")
        THEN [changed |-> TRUE,
              state |-> NextState(s1, Target(s.state, "timeout"),
                                  Command(now_ms, "", "timeout", NoCell, NoCell))]
        ELSE [changed |-> FALSE, state |-> s1]

----------------------------------------------------------------------------
(* Piece *)

\* Piece.__init__ for a piece created at cell
Piece(piece_id, piece_type, color, cell) ==
    [piece_id |-> piece_id, piece_type |-> piece_type, color |-> color,
     current_state |-> State("idle", Physics(cell)),
     move_count |-> 0, has_moved |-> FALSE, last_action_time |-> 0]

\* on_command with the cooldown test left out
on_command_path_no_cooldown(p, cmd, now_ms) ==
    IF cmd.piece_id # p.piece_id THEN "other_piece"
    ELSE IF p.current_state.state = "long_rest" /\ cmd.type \in {"Move", "Jump"}
    THEN "resting"
    ELSE IF /\ p.piece_type = "P" /\ cmd.type = "Move"
            /\ get_source_cell(cmd) # NoCell /\ get_target_cell(cmd) # NoCell
            /\ Abs(get_target_cell(cmd)[1] - get_source_cell(cmd)[1]) = 2
            /\ p.has_moved
    THEN "pawn_double"
    ELSE IF get_state_after_command(p.current_state, cmd, now_ms).changed
    THEN "accepted"
    ELSE "stay"

\* on_command with the pawn's two-cell test left out
on_command_path_no_pawn_rule(p, cmd, now_ms) ==
    IF cmd.piece_id # p.piece_id THEN "other_piece"
    ELSE IF p.current_state.state = "long_rest" /\ cmd.type \in {"Move", "Jump"}
    THEN "resting"
    ELSE IF now_ms - p.last_action_time < cooldown_duration THEN "cooldown"
    ELSE IF get_state_after_command(p.current_state, cmd, now_ms).changed
    THEN "accepted"
    ELSE "stay"

\* on_command with the long_rest block left out
on_command_path_no_rest_block(p, cmd, now_ms) ==
    IF cmd.piece_id # p.piece_id THEN "other_piece"
    ELSE IF now_ms - p.last_action_time < cooldown_duration THEN "cooldown"
    ELSE IF /\ p.piece_type = "P" /\ cmd.type = "Move"
            /\ get_source_cell(cmd) # NoCell /\ get_target_cell(cmd) # NoCell
            /\ Abs(get_target_cell(cmd)[1] - get_source_cell(cmd)[1]) = 2
            /\ p.has_moved
    THEN "pawn_double"
    ELSE IF get_state_after_command(p.current_state, cmd, now_ms).changed
    THEN "accepted"
    ELSE "stay"

\* on_command with the piece_id test left out
on_command_path_any_piece(p, cmd, now_ms) ==
    IF p.current_state.state = "long_rest" /\ cmd.type \in {"Move", "Jump"}
    THEN "resting"
    ELSE IF now_ms - p.last_action_time < cooldown_duration THEN "cooldown"
    ELSE IF /\ p.piece_type = "P" /\ cmd.type = "Move"
            /\ get_source_cell(cmd) # NoCell /\ get_target_cell(cmd) # NoCell
            /\ Abs(get_target_cell(cmd)[1] - get_source_cell(cmd)[1]) = 2
            /\ p.has_moved
    THEN "pawn_double"
    ELSE IF get_state_after_command(p.current_state, cmd, now_ms).changed
    THEN "accepted"
    ELSE "stay"

\* the return taken by Piece.on_command(cmd, now_ms)
on_command_path(p, cmd, now_ms) ==
    IF cmd.piece_id # p.piece_id THEN "other_piece"
    ELSE IF p.current_state.state = "long_rest" /\ cmd.type \in {"Move", "Jump"}
    THEN "resting"
    ELSE IF now_ms - p.last_action_time < cooldown_duration THEN "cooldown"
    ELSE IF /\ p.piece_type = "P" /\ cmd.type = "Move"
            /\ get_source_cell(cmd) # NoCell /\ get_target_cell(cmd) # NoCell
            /\ Abs(get_target_cell(cmd)[1] - get_source_cell(cmd)[1]) = 2
            /\ p.has_moved
    THEN "pawn_double"
    ELSE IF get_state_after_command(p.current_state, cmd, now_ms).changed
    THEN "accepted"
    ELSE "stay"

\* on_command stamping last_action_time on every command it lets through
on_command_stamp_always(p, cmd, now_ms) ==
    LET path == on_command_path(p, cmd, now_ms)
        r == get_state_after_command(p.current_state, cmd, now_ms)
        moved == cmd.type \in {"Move", "Jump"}
        p1 == IF path = "accepted"
              THEN [p EXCEPT !.current_state = r.state,
                             !.move_count = IF moved THEN @ + 1 ELSE @,
                             !.has_moved = IF moved THEN TRUE ELSE @]
              ELSE p
    IN  IF path \in {"accepted", "stay"}
        THEN [p1 EXCEPT !.last_action_time = now_ms,
                        !.current_state.physics =
                            PhysicsReset(p1.current_state.physics, cmd)]
        ELSE p

\* on_command counting every accepted command as a move
on_command_count_always(p, cmd, now_ms) ==
    LET path == on_command_path(p, cmd, now_ms)
        r == get_state_after_command(p.current_state, cmd, now_ms)
        moved == cmd.type \in {"Move", "Jump"}
        p1 == IF path = "accepted"
              THEN [p EXCEPT !.current_state = r.state,
                             !.last_action_time = now_ms,
                             !.move_count = @ + 1,
                             !.has_moved = IF moved THEN TRUE ELSE @]
              ELSE p
    IN  IF path \in {"accepted", "stay"}
        THEN [p1 EXCEPT !.current_state.physics =
                            PhysicsReset(p1.current_state.physics, cmd)]
        ELSE p

\* Piece.on_command(cmd, now_ms): the piece afterwards
on_command(p, cmd, now_ms) ==
    LET path == on_command_path(p, cmd, now_ms)
        r == get_state_after_command(p.current_state, cmd, now_ms)
        moved == cmd.type \in {"Move", "Jump"}
        p1 == IF path = "accepted"
              THEN [p EXCEPT !.current_state = r.state,
                             !.last_action_time = now_ms,
                             !.move_count = IF moved THEN @ + 1 ELSE @,
                             !.has_moved = IF moved THEN TRUE ELSE @]
              ELSE p
    IN  IF path \in {"accepted", "stay"}
        THEN [p1 EXCEPT !.current_state.physics =
                            PhysicsReset(p1.current_state.physics, cmd)]
        ELSE p

\* Piece.reset(start_ms)
PieceReset(p, start_ms) ==
    [p EXCEPT !.last_action_time = start_ms,
              !.move_count = 0,
              !.has_moved = FALSE,
              !.current_state =
                  StateReset(@, create_idle_command(start_ms, p.piece_id))]

\* Piece.update(now_ms) when Physics.update has outcome o
PieceUpdate(p, now_ms, o) ==
    [p EXCEPT !.current_state = StateUpdate(@, now_ms, o).state]

----------------------------------------------------------------------------
(* The pieces of the explored games, in the order of Game.pieces *)

AllIds == <<"KW", "QW", "PW", "KB", "RB", "NW">>

piece_type_of(id) == CASE id \in {"KW", "KB"} -> "K"
                       [] id = "QW" -> "Q"
                       [] id = "PW" -> "P"
                       [] id = "NW" -> "N"
                       [] OTHER -> "R"

\* Piece.__init__: the colour is read from the prefix of piece_id
color_of(id) == IF id \in {"KW", "QW", "PW", "NW"} THEN "White" ELSE "Black"

\* create_piece handing every piece of one type the same idle state
NewPiece_shared_idle(id, cell) ==
    [Piece(id, piece_type_of(id), color_of(id), cell) EXCEPT
        !.current_state.is_rest_state = NodeRest(<<id, "idle">>).is_rest_state,
        !.current_state.rest_duration_ms =
            NodeRest(<<id, "idle">>).rest_duration_ms,
        !.current_state.transitions = instance_transitions(id, "idle"),
        !.current_state.node = <<piece_type_of(id), "idle">>]

\* create_piece starting the piece in the idle state of the template map
NewPiece_template_idle(id, cell) ==
    [Piece(id, piece_type_of(id), color_of(id), cell) EXCEPT
        !.current_state.is_rest_state = NodeRest(<<id, "idle">>).is_rest_state,
        !.current_state.rest_duration_ms =
            NodeRest(<<id, "idle">>).rest_duration_ms,
        !.current_state.transitions = instance_transitions(id, "idle"),
        !.current_state.node = <<"template", "idle">>]

\* PieceFactory.create_piece: the piece starts in the idle state of its own
\* copy of the template graph
NewPiece(id, cell) ==
    [Piece(id, piece_type_of(id), color_of(id), cell) EXCEPT
        !.current_state.is_rest_state = NodeRest(<<id, "idle">>).is_rest_state,
        !.current_state.rest_duration_ms =
            NodeRest(<<id, "idle">>).rest_duration_ms,
        !.current_state.transitions = instance_transitions(id, "idle"),
        !.current_state.node = <<id, "idle">>]

\* two pieces hold the same State object: a state of a graph (the states
\* made on a transition are new objects, held by one piece only)
SameObject(s, t) == s.node = t.node /\ s.node[1] # "copy"

\* the pieces after a call on piece id has written its current state in
\* place: a piece holding the same State object sees what was written
WriteShared(ps, id) ==
    [j \in DOMAIN ps |->
        IF j # id /\ SameObject(ps[j].current_state, ps[id].current_state)
        THEN [ps[j] EXCEPT !.current_state = ps[id].current_state]
        ELSE ps[j]]

\* the live pieces in the iteration order of Game.pieces.values()
LiveIds == SelectSeq(AllIds, LAMBDA id : id \in DOMAIN pieces)

CommandKinds == {"Move", "Jump", "idle", "complete", "timeout"}

\* what a call leaves in last
Call(op, piece_id, type, double, path) ==
    [op |-> op, piece_id |-> piece_id, type |-> type, double |-> double,
     path |-> path]

NoCall == Call("none", "", "", FALSE, "")

RowDiff(cmd) ==
    IF get_source_cell(cmd) # NoCell /\ get_target_cell(cmd) # NoCell
    THEN Abs(get_target_cell(cmd)[1] - get_source_cell(cmd)[1])
    ELSE 0

\* the initial value of Game.selection: nothing selected.  The cursor
\* (selection[player]['pos']) is wherever the player has steered it; it is
\* an input of _select_piece.
InitSelection == [player \in {"A", "B"} |-> ""]

----------------------------------------------------------------------------
(* Moves *)

MaxReach == BoardH + BoardW

Line(dr, dc) == [k \in 1 .. MaxReach |-> <<k * dr, k * dc>>]

StraightDeltas == Line(1, 0) \o Line(-1, 0) \o Line(0, 1) \o Line(0, -1)

DiagonalDeltas == Line(1, 1) \o Line(1, -1) \o Line(-1, 1) \o Line(-1, -1)

KingDeltas == << <<1, 0>>, <<-1, 0>>, <<0, 1>>, <<0, -1>>,
                 <<1, 1>>, <<1, -1>>, <<-1, 1>>, <<-1, -1>> >>

KnightDeltas == << <<1, 2>>, <<1, -2>>, <<-1, 2>>, <<-1, -2>>,
                   <<2, 1>>, <<2, -1>>, <<-2, 1>>, <<-2, -1>> >>

\* Moves.move_deltas of a piece: the (dr, dc) pairs read from its moves.txt
move_deltas(id) ==
    CASE piece_type_of(id) = "P" ->
           << <<-1, 0>>, <<-2, 0>>, <<-1, -1>>, <<-1, 1>> >>
      [] piece_type_of(id) = "R" -> StraightDeltas
      [] piece_type_of(id) = "Q" -> StraightDeltas \o DiagonalDeltas
      [] piece_type_of(id) = "N" -> KnightDeltas
      [] OTHER -> KingDeltas

\* the Moves objects of the pieces of a game
GameMoves == [id \in {AllIds[i] : i \in 1 .. Len(AllIds)} |-> move_deltas(id)]

\* Moves.get_moves with the bounds test including board_height and
\* board_width themselves
Moves_get_moves_inclusive(d, r, c) ==
    LET all == [i \in 1 .. Len(d) |-> <<r + d[i][1], c + d[i][2]>>]
    IN  SelectSeq(all, LAMBDA m : /\ 0 <= m[1] /\ m[1] <= BoardH
                                  /\ 0 <= m[2] /\ m[2] <= BoardW)

\* Moves.get_moves(r, c) of a Moves object with move_deltas d
Moves_get_moves(d, r, c) ==
    LET all == [i \in 1 .. Len(d) |-> <<r + d[i][1], c + d[i][2]>>]
    IN  SelectSeq(all, LAMBDA m : /\ 0 <= m[1] /\ m[1] < BoardH
                                  /\ 0 <= m[2] /\ m[2] < BoardW)

\* Moves.get_moves(r, c) of the piece id
get_moves(id, r, c) == Moves_get_moves(moves[id], r, c)

Range(seq) == {seq[i] : i \in 1 .. Len(seq)}

----------------------------------------------------------------------------
(* The Piece interface, called in any order at a clock that never runs     *)
(* backwards                                                                *)

InitPiece ==
    /\ factory = GameFactory
    /\ pieces = [i \in {} |-> <<>>]
    /\ clock = 0
    /\ user_input_queue = <<>>
    /\ selection = InitSelection
    /\ pc = "api"
    /\ last = NoCall
    /\ captured = <<>>
    /\ event_bus = TRUE
    /\ deleted = <<>>
    /\ _should_quit = FALSE
    /\ moves = GameMoves
    /\ subscribers = NoSubscribers
    /\ received = <<>>

\* factory.create_piece: the piece the calls below are made on; it reads
\* the template map
CreatePiece ==
    /\ DOMAIN pieces = {}
    /\ \E id \in {"PW", "RB"} :
          /\ pieces' = [i \in {id} |-> NewPiece(i, <<BoardH - 1, 0>>)]
          /\ last' = Call("create_piece", id, "", FALSE, "")
    /\ UNCHANGED <<clock, user_input_queue, selection, pc, captured,
                   event_bus, deleted, factory, _should_quit, moves,
                   subscribers, received>>

\* the clock advances
Tick ==
    /\ clock + ClockStep <= MaxTime
    /\ clock' = clock + ClockStep
    /\ last' = Call("tick", "", "", FALSE, "")
    /\ UNCHANGED <<pieces, user_input_queue, selection, pc, captured,
                   event_bus, deleted, factory, _should_quit, moves,
                   subscribers, received>>

\* piece.on_command(cmd, clock) for a command made at the current time
CallOnCommand(id, cmd) ==
    /\ pieces' = WriteShared([pieces EXCEPT ![id] = on_command(@, cmd, clock)],
                             id)
    /\ last' = Call("on_command", id, cmd.type, RowDiff(cmd) = 2,
                    on_command_path(pieces[id], cmd, clock))
    /\ UNCHANGED <<clock, user_input_queue, selection, pc, captured,
                   event_bus, deleted, factory, _should_quit, moves,
                   subscribers, received>>

ApiOnCommand ==
    \E id \in DOMAIN pieces, to \in DOMAIN pieces \cup {"other"},
       type \in CommandKinds :
        \/ /\ type = "Move"
           /\ \E dst \in {c \in Cells : c[2] = 0} :
                 CallOnCommand(id, create_move_command(clock, to,
                     pieces[id].current_state.physics.current_cell, dst))
        \/ /\ type # "Move"
           /\ CallOnCommand(id, Command(clock, to, type, NoCell, NoCell))

\* piece.update(clock)
ApiUpdate ==
    \E id \in DOMAIN pieces :
        \E o \in PhysicsOutcomes(pieces[id].current_state.physics) :
            /\ pieces' = WriteShared(
                              [pieces EXCEPT ![id] = PieceUpdate(@, clock, o)],
                              id)
            /\ last' = Call("update", id, "", FALSE,
                            IF StateUpdate(pieces[id].current_state, clock, o).changed
                            THEN "changed" ELSE "same")
            /\ UNCHANGED <<clock, user_input_queue, selection, pc, captured,
                           event_bus, deleted, factory, _should_quit, moves,
                   subscribers, received>>

\* piece.reset(clock)
ApiReset ==
    \E id \in DOMAIN pieces :
        /\ pieces' = WriteShared([pieces EXCEPT ![id] = PieceReset(@, clock)],
                                 id)
        /\ factory' = TemplatesAfterReset(factory, pieces'[id].current_state)
        /\ last' = Call("reset", id, "", FALSE, "")
        /\ UNCHANGED <<clock, user_input_queue, selection, pc, captured,
                       event_bus, deleted, _should_quit, moves,
                   subscribers, received>>

NextPiece == CreatePiece \/ Tick \/ ApiOnCommand \/ ApiUpdate \/ ApiReset

SpecPiece == InitPiece /\ [][NextPiece]_vars

----------------------------------------------------------------------------
(* The Piece interface on two pieces made from one template *)

PairIds == {"KW", "KB"}

PairCell(id) == IF id = "KW" THEN <<BoardH - 1, 0>> ELSE <<BoardH - 1, 1>>

InitPair ==
    /\ factory = GameFactory
    /\ pieces = [id \in PairIds |-> NewPiece(id, PairCell(id))]
    /\ clock = 0
    /\ user_input_queue = <<>>
    /\ selection = InitSelection
    /\ pc = "api"
    /\ last = NoCall
    /\ captured = <<>>
    /\ event_bus = TRUE
    /\ deleted = <<>>
    /\ _should_quit = FALSE
    /\ moves = GameMoves
    /\ subscribers = NoSubscribers
    /\ received = <<>>

\* piece.on_command with a Move one row up, addressed to the piece
PairOnCommand ==
    \E id \in DOMAIN pieces :
        CallOnCommand(id, create_move_command(clock, id,
            pieces[id].current_state.physics.current_cell,
            <<BoardH - 2, PairCell(id)[2]>>))

NextPair == Tick \/ PairOnCommand \/ ApiUpdate \/ ApiReset

SpecPair == InitPair /\ [][NextPair]_vars

----------------------------------------------------------------------------
(* Properties of the Piece interface *)

ClockValues == {k * ClockStep : k \in 0 .. MaxTicks}

\* every command that can be addressed to piece id at time now
CommandsFor(id, now) ==
    {create_move_command(now, id, src, dst) : src \in Cells, dst \in Cells}
    \cup {Command(now, id, type, NoCell, NoCell) : type \in CommandKinds}

MoveCommandsFor(id, now) == {c \in CommandsFor(id, now) : c.type = "Move"}

OnCooldown(p, now) == now - p.last_action_time < cooldown_duration

\* C1: while now - last_action_time < cooldown_duration, on_command(cmd, now)
\* changes nothing of the piece (state, last_action_time, has_moved,
\* move_count, motion target), whatever the command kind.
C1_CooldownNoOp ==
    \A id \in DOMAIN pieces : \A now \in ClockValues :
        OnCooldown(pieces[id], now) =>
            \A cmd \in CommandsFor(id, now) :
                on_command(pieces[id], cmd, now) = pieces[id]

\* a command dropped by the cooldown on a piece that is in flight
C1_Witness ==
    /\ last.op = "on_command" /\ last.path = "cooldown"
    /\ \E id \in DOMAIN pieces :
          /\ last.piece_id = id
          /\ pieces[id].current_state.state = "move"
          /\ OnCooldown(pieces[id], clock)

\* C2: a rest state started at s with duration d cannot be left at any now
\* in [s, s+d) and can be left at every now >= s+d; a state that is no rest
\* state can always be left.
C2_CanTransitionWindow ==
    \A id \in DOMAIN pieces : \A now \in ClockValues :
        LET s == pieces[id].current_state
            from == s.state_start_time
            d == s.rest_duration_ms
        IN  /\ s.is_rest_state /\ from <= now /\ now < from + d
                => ~can_transition(s, now)
            /\ s.is_rest_state /\ now >= from + d => can_transition(s, now)
            /\ ~s.is_rest_state => can_transition(s, now)

\* a command reached the state machine of a rest state exactly at s+d
C2_Witness ==
    /\ last.op = "on_command" /\ last.path = "stay"
    /\ \E id \in DOMAIN pieces :
          LET s == pieces[id].current_state
          IN  /\ s.is_rest_state
              /\ clock = s.state_start_time + s.rest_duration_ms

\* C3: after reset(t) the piece is in state idle with has_moved false,
\* move_count 0 and last_action_time t.
C3_ResetEndsIdle ==
    last.op = "reset" =>
        LET p == pieces[last.piece_id]
        IN  /\ p.current_state.state = "idle"
            /\ ~p.has_moved
            /\ p.move_count = 0
            /\ p.last_action_time = clock

IsDouble(cmd) == cmd.type = "Move" /\ RowDiff(cmd) = 2

BeforeStateMachine == {"resting", "cooldown", "pawn_double"}

\* C5: a pawn that has not moved, is idle and off cooldown accepts a
\* two-cell Move and has has_moved set by it; a pawn with has_moved set drops
\* every two-cell Move before the state machine is asked, unchanged; and
\* has_moved stays set over every on_command and update.
C5_PawnFirst ==
    \A id \in DOMAIN pieces : \A cmd \in MoveCommandsFor(id, clock) :
        LET p == pieces[id]
        IN  (p.piece_type = "P" /\ IsDouble(cmd)) =>
              /\ (~p.has_moved /\ p.current_state.state = "idle"
                    /\ ~OnCooldown(p, clock))
                   => /\ on_command_path(p, cmd, clock) = "accepted"
                      /\ on_command(p, cmd, clock).has_moved
                      /\ on_command(p, cmd, clock).current_state.state = "move"
              /\ p.has_moved
                   => /\ on_command_path(p, cmd, clock) \in BeforeStateMachine
                      /\ on_command(p, cmd, clock) = p

C5_HasMovedKept ==
    \A id \in DOMAIN pieces :
        (pieces[id].has_moved /\ last'.op \in {"on_command", "update", "tick"})
            => pieces'[id].has_moved

C5_PawnDoubleMoveOnce == []C5_PawnFirst /\ [][C5_HasMovedKept]_vars

\* a second two-cell Move was dropped by the pawn rule
C5_Witness ==
    /\ last.op = "on_command" /\ last.path = "pawn_double" /\ last.double
    /\ \E id \in DOMAIN pieces :
          pieces[id].piece_type = "P" /\ pieces[id].move_count >= 1

NotPawnRepeat(p, cmd) == ~(p.piece_type = "P" /\ IsDouble(cmd) /\ p.has_moved)

\* C10 as claimed: in long_rest entered at t a Move at a time in [t, t+2000)
\* is dropped, and a Move at a time >= t+2000 with the cooldown over ends in
\* state move.
C10_MoveAfterRestTime ==
    \A id \in DOMAIN pieces : \A cmd \in MoveCommandsFor(id, clock) :
        LET p == pieces[id]
            t == p.current_state.state_start_time
        IN  (p.current_state.state = "long_rest" /\ NotPawnRepeat(p, cmd)) =>
              /\ clock < t + LongRestMs => on_command(p, cmd, clock) = p
              /\ (clock >= t + LongRestMs /\ ~OnCooldown(p, clock))
                   => on_command(p, cmd, clock).current_state.state = "move"

\* C10, amended: in long_rest every Move is dropped, at any time; ...
C10_RestDropsMove ==
    \A id \in DOMAIN pieces : \A cmd \in MoveCommandsFor(id, clock) :
        pieces[id].current_state.state = "long_rest"
            => on_command(pieces[id], cmd, clock) = pieces[id]

\* ... and once update() at a time >= t+2000 has taken the piece from
\* long_rest to idle, a Move with the cooldown over ends in state move.
C10_MoveAfterTimeout ==
    \A id \in DOMAIN pieces :
        (/\ id \in DOMAIN pieces'
         /\ pieces[id].current_state.state = "long_rest"
         /\ last'.op = "update"
         /\ pieces'[id].current_state.state = "idle")
        => /\ clock' >= pieces[id].current_state.state_start_time + LongRestMs
           /\ \A cmd \in MoveCommandsFor(id, clock') :
                 (~OnCooldown(pieces'[id], clock')
                    /\ NotPawnRepeat(pieces'[id], cmd))
                 => on_command(pieces'[id], cmd, clock').current_state.state
                        = "move"

C10_MoveAfterRest == []C10_RestDropsMove /\ [][C10_MoveAfterTimeout]_vars

\* a Move dispatched at a time >= t+2000 to a piece still in long_rest
C10_Witness ==
    /\ last.op = "on_command" /\ last.type = "Move" /\ last.path = "resting"
    /\ \E id \in DOMAIN pieces :
          /\ pieces[id].current_state.state = "long_rest"
          /\ clock >= pieces[id].current_state.state_start_time + LongRestMs
          /\ ~OnCooldown(pieces[id], clock)

\* whatever the command and the time of the call, on_command moves
\* last_action_time only forward and only when it replaced the state, and
\* update leaves it alone
C13_Calls ==
    \A id \in DOMAIN pieces : \A now \in ClockValues :
        LET p == pieces[id]
        IN  /\ \A cmd \in CommandsFor(id, now) :
                 LET q == on_command(p, cmd, now)
                 IN  /\ now >= p.last_action_time =>
                            q.last_action_time >= p.last_action_time
                     /\ q.last_action_time # p.last_action_time =>
                            /\ on_command_path(p, cmd, now) = "accepted"
                            /\ q.last_action_time = now
           /\ \A o \in PhysicsOutcomes(p.current_state.physics) :
                 PieceUpdate(p, now, o).last_action_time = p.last_action_time

\* along a run of on_command and update calls, last_action_time changes
\* only in an on_command call that replaced the state, and never decreases
C13_Step ==
    \A id \in DOMAIN pieces :
        last'.op \in {"on_command", "update"} =>
            /\ pieces'[id].last_action_time >= pieces[id].last_action_time
            /\ pieces'[id].last_action_time # pieces[id].last_action_time =>
                  /\ last'.op = "on_command" /\ last'.path = "accepted"
                  /\ last'.piece_id = id

\* C13: over any sequence of on_command and update calls with
\* non-decreasing now, last_action_time never decreases and changes only
\* in an on_command call that replaced the current state.
C13_LastActionTime == []C13_Calls /\ [][C13_Step]_vars

\* an accepted command moved last_action_time forward to the time of the call
C13_Witness ==
    /\ last.op = "on_command" /\ last.path = "accepted"
    /\ last.piece_id \in DOMAIN pieces
    /\ pieces[last.piece_id].last_action_time = clock
    /\ clock >= 2 * cooldown_duration

\* C14: a command that is inapplicable (cooldown active, rest not expired,
\* no transition for its kind, repeated pawn two-cell move) leaves the
\* piece entirely unchanged: state, state start time, last_action_time,
\* has_moved, move_count, occupied cell and motion target.
C14_DroppedUnchanged ==
    \A id \in DOMAIN pieces : \A now \in ClockValues :
        \A cmd \in CommandsFor(id, now) :
            on_command_path(pieces[id], cmd, now)
                    \in {"cooldown", "resting", "pawn_double", "stay"}
                => on_command(pieces[id], cmd, now) = pieces[id]

\* C19: in every reachable state a piece whose current state is a rest state
\* with the rest not yet over (now - state_start_time < rest_duration_ms) is
\* on cooldown as well (now - last_action_time < cooldown_duration).
C19_RestImpliesCooldown ==
    \A id \in DOMAIN pieces :
        LET s == pieces[id].current_state
        IN  s.is_rest_state /\ clock - s.state_start_time < s.rest_duration_ms
                => OnCooldown(pieces[id], clock)

\* what an accepted command does to the piece, but for the move counter
AcceptedEffect(p, q, cmd, now) ==
    /\ q.current_state.state = Target(p.current_state.state, cmd.type)
    /\ q.current_state.state_start_time = cmd.timestamp
    /\ q.last_action_time = now
    /\ q.has_moved = (p.has_moved \/ cmd.type \in {"Move", "Jump"})

\* C23 as stated: when on_command accepts a command the current state is
\* replaced, last_action_time is set to now and move_count is incremented;
\* has_moved becomes true if and only if the kind is Move or Jump.
C23_AcceptedCounts ==
    \A id \in DOMAIN pieces : \A now \in ClockValues :
        \A cmd \in CommandsFor(id, now) :
            on_command_path(pieces[id], cmd, now) = "accepted" =>
                LET q == on_command(pieces[id], cmd, now)
                IN  /\ AcceptedEffect(pieces[id], q, cmd, now)
                    /\ q.move_count = pieces[id].move_count + 1

\* C23, amended: when on_command accepts a command the current state is
\* replaced, last_action_time is set to now, and move_count is incremented
\* and has_moved set exactly when the kind is Move or Jump; an accepted
\* command of another kind leaves move_count and has_moved as they were.
C23_AcceptedEffect ==
    \A id \in DOMAIN pieces : \A now \in ClockValues :
        \A cmd \in CommandsFor(id, now) :
            on_command_path(pieces[id], cmd, now) = "accepted" =>
                LET q == on_command(pieces[id], cmd, now)
                IN  /\ AcceptedEffect(pieces[id], q, cmd, now)
                    /\ q.move_count = pieces[id].move_count
                          + (IF cmd.type \in {"Move", "Jump"} THEN 1 ELSE 0)

\* a piece in flight accepted a command of kind complete: it rests, the
\* call is the last action and the one Move is all that was counted
C23_Witness ==
    /\ last.op = "on_command" /\ last.path = "accepted"
    /\ last.type = "complete"
    /\ last.piece_id \in DOMAIN pieces
    /\ LET p == pieces[last.piece_id]
       IN  /\ p.current_state.state = "long_rest"
           /\ p.last_action_time = clock
           /\ p.move_count = 1

\* C24: update(now) makes timer transitions only.  If the movement reports
\* completion and the state has a complete transition the piece is in its
\* target with state start time now; otherwise, if the state is a rest
\* state with now - start >= rest duration and has a timeout transition,
\* the piece is in the timeout target, idle; otherwise the state is the
\* one it was.  So a piece in long_rest or short_rest is in idle after the
\* first update at or past the rest boundary.  The counters of the piece
\* are not touched.
C24_UpdateTimers ==
    \A id \in DOMAIN pieces : \A now \in ClockValues :
        \A o \in PhysicsOutcomes(pieces[id].current_state.physics) :
            LET p == pieces[id]
                s == p.current_state
                q == PieceUpdate(p, now, o)
                t == q.current_state
                expired == now - s.state_start_time >= s.rest_duration_ms
            IN  /\ IF o = "complete" /\ "complete" \in DOMAIN s.transitions
                   THEN /\ t.state = s.transitions["complete"][2]
                        /\ t.state_start_time = now
                   ELSE IF /\ s.is_rest_state /\ expired
                           /\ "timeout" \in DOMAIN s.transitions
                   THEN /\ t.state = s.transitions["timeout"][2]
                        /\ t.state = "idle"
                        /\ t.state_start_time = now
                   ELSE /\ t.state = s.state
                        /\ t.state_start_time = s.state_start_time
                        /\ t.transitions = s.transitions
                /\ s.state \in {"long_rest", "short_rest"} /\ expired
                      => t.state = "idle"
                /\ q.last_action_time = p.last_action_time
                /\ q.move_count = p.move_count
                /\ q.has_moved = p.has_moved

\* an update at the rest boundary or later has just taken a piece that
\* had moved from its rest to idle
C24_Witness ==
    /\ last.op = "update" /\ last.path = "changed"
    /\ last.piece_id \in DOMAIN pieces
    /\ LET p == pieces[last.piece_id]
       IN  /\ p.current_state.state = "idle"
           /\ p.current_state.state_start_time = clock
           /\ p.has_moved
           /\ clock - p.last_action_time >= ShortRestMs

\* the event a call delivered to the state machine of piece id: the kind of
\* a command on_command accepted, or what update found (a motion that
\* completed in this call, a rest whose time is over)
Delivered(id, event) ==
    \/ /\ last'.op = "on_command" /\ last'.path = "accepted"
       /\ last'.piece_id = id /\ last'.type = event
    \/ /\ last'.op = "update" /\ last'.piece_id = id
       /\ LET s == pieces[id].current_state
              t == pieces'[id].current_state
          IN  IF event = "complete"
              THEN /\ s.physics.is_moving /\ ~t.physics.is_moving
                   /\ t.physics.current_cell = s.physics.target_cell
              ELSE /\ event = "timeout" /\ s.is_rest_state
                   /\ clock' >= s.state_start_time + s.rest_duration_ms

\* a change of the state name follows an edge of the graph
C27_Step ==
    \A id \in DOMAIN pieces \cap DOMAIN pieces' :
        LET a == pieces[id].current_state.state
            b == pieces'[id].current_state.state
        IN  a # b =>
              \/ a = "idle" /\ b = "move" /\ Delivered(id, "Move")
              \/ a = "idle" /\ b = "jump" /\ Delivered(id, "Jump")
              \/ a = "idle" /\ b = "attack" /\ Delivered(id, "Attack")
              \/ a = "move" /\ b = "long_rest" /\ Delivered(id, "complete")
              \/ a = "jump" /\ b = "short_rest" /\ Delivered(id, "complete")
              \/ /\ a \in {"long_rest", "short_rest"} /\ b = "idle"
                 /\ Delivered(id, "timeout")
                 /\ clock' >= pieces[id].current_state.state_start_time
                                 + pieces[id].current_state.rest_duration_ms
              \/ /\ a = "attack" /\ b = "idle" /\ Delivered(id, "complete")
              \/ /\ a = "move" /\ b = "idle" /\ Delivered(id, "complete")
                 /\ "long_rest" \notin factory.piece_templates.states
              \/ /\ a = "jump" /\ b = "idle" /\ Delivered(id, "complete")
                 /\ "short_rest" \notin factory.piece_templates.states

\* a piece create_piece has just made is idle
C27_StartsIdle ==
    last.op = "create_piece" =>
        pieces[last.piece_id].current_state.state = "idle"

\* C27, amended: the state sequence of a piece follows the graph: it starts
\* in idle; move, jump and attack are entered only from idle by a matching
\* accepted command; long_rest only from move and short_rest only from jump,
\* when update finds the motion complete or a command of kind complete is
\* accepted; idle only from a rest state at or after the end of the rest,
\* by update or by an accepted command of kind timeout, or from attack (or
\* a rest-less move or jump) on complete; no other change of state occurs.
C27_FollowsGraph == []C27_StartsIdle /\ [][C27_Step]_vars

\* C27 as claimed: the rest states and idle are entered on motion completion
\* and on timeout only, that is, in a call of update
C27_ByUpdateOnly ==
    \A id \in DOMAIN pieces \cap DOMAIN pieces' :
        LET a == pieces[id].current_state.state
            b == pieces'[id].current_state.state
        IN  (a # b /\ b \in {"long_rest", "short_rest", "idle"})
                => last'.op = "update"

C27_OnlyOnCompletion ==
    []C27_StartsIdle /\ [][C27_Step /\ C27_ByUpdateOnly]_vars

\* update found the jump complete and put the piece in short_rest
C27_Witness ==
    /\ last.op = "update" /\ last.path = "changed"
    /\ last.piece_id \in DOMAIN pieces
    /\ pieces[last.piece_id].current_state.state = "short_rest"
    /\ pieces[last.piece_id].move_count >= 2

\* the template map is what _build_templates left
C30_AsBuilt ==
    factory.piece_templates = _build_state_machine(factory.states_dirs)

\* create_piece, on_command, update and reset leave the template map alone
C30_Step ==
    last'.op \in {"create_piece", "on_command", "update", "reset"}
        => factory' = factory

\* C30: after construction the cached template map is never changed by
\* create_piece or by a piece's on_command, update or reset: its states,
\* their rest metadata, their transition tables and their start times stay
\* as _build_templates left them.
C30_TemplatesFrozen == []C30_AsBuilt /\ [][C30_Step]_vars

\* reset wrote a later start time into the idle state create_piece made for
\* the piece, the one state of its graph the piece holds directly
C30_Witness ==
    /\ last.op = "reset" /\ clock > 0
    /\ last.piece_id \in DOMAIN pieces
    /\ LET s == pieces[last.piece_id].current_state
       IN  /\ s.node = <<last.piece_id, "idle">>
           /\ s.state_start_time = clock
           /\ factory.piece_templates.nodes["idle"].state_start_time = 0

\* a call on one piece leaves every other piece as it was
C31_OthersUnchanged ==
    last'.op \in {"on_command", "update", "reset"} =>
        \A id \in DOMAIN pieces \ {last'.piece_id} :
            /\ id \in DOMAIN pieces'
            /\ pieces'[id] = pieces[id]

\* update takes a resting piece out of rest exactly when its own rest time
\* is over
C31_OwnTimer ==
    \A id \in DOMAIN pieces :
        LET s == pieces[id].current_state
        IN  (last'.op = "update" /\ last'.piece_id = id /\ s.is_rest_state)
                => (pieces'[id].current_state.state = "idle"
                      <=> clock' >= s.state_start_time + s.rest_duration_ms)

\* C31: for any two distinct pieces, also of one piece type, an on_command,
\* update or reset on one changes neither the current state of the other
\* nor its state start time, last_action_time, has_moved or move_count; two
\* pieces resting at once each leave rest at their own start time plus rest
\* duration.
C31_IndependentPieces == [][C31_OthersUnchanged /\ C31_OwnTimer]_vars

\* of two pieces resting at once, the one that started first has left its
\* rest and the other is still in its own
C31_Witness ==
    /\ last.op = "update" /\ last.path = "changed"
    /\ DOMAIN pieces = PairIds
    /\ \E a \in PairIds : \E b \in PairIds \ {a} :
          /\ last.piece_id = a
          /\ pieces[a].current_state.state = "idle"
          /\ pieces[a].current_state.state_start_time = clock
          /\ pieces[b].current_state.is_rest_state
          /\ pieces[b].current_state.state_start_time < clock
          /\ clock < pieces[b].current_state.state_start_time
                        + pieces[b].current_state.rest_duration_ms

\* the transitions open to the current state of piece id: by a command
\* stamped ts, and by update under every outcome of the motion; Kept(s, t,
\* cmd) relates the state left, the new state and the triggering command
TransitionsKeep(Kept(_, _, _)) ==
    \A id \in DOMAIN pieces :
        LET s == pieces[id].current_state
        IN  /\ \A ts \in ClockValues : \A cmd \in CommandsFor(id, ts) :
                  LET r == get_state_after_command(s, cmd, clock)
                  IN  r.changed => Kept(s, r.state, cmd)
            /\ \A o \in PhysicsOutcomes(s.physics) :
                  LET left == [s EXCEPT !.physics = PhysicsUpdate(s.physics, o)[1]]
                      u == StateUpdate(s, clock, o)
                  IN  u.changed =>
                        Kept(left, u.state,
                             Command(clock, "",
                                     IF PhysicsUpdate(s.physics, o)[2]
                                     THEN "complete" ELSE "timeout",
                                     NoCell, NoCell))

\* C35 as claimed: every transition carries the position context over
\* unchanged (current_cell and target_cell of the new state are those of
\* the state left) and starts the new state at the timestamp of the
\* triggering command.
C35_PositionUnchanged ==
    TransitionsKeep(LAMBDA s, t, cmd :
        /\ t.physics.current_cell = s.physics.current_cell
        /\ t.physics.target_cell = s.physics.target_cell
        /\ t.state_start_time = cmd.timestamp)

\* C35, amended: every transition carries current_cell over unchanged and
\* starts the new state at the timestamp of the triggering command (now for
\* the complete and timeout of update); target_cell is carried over and then
\* set by the command the state is entered with: the destination for a
\* Move, the current cell for a Jump, and left as it was otherwise.
C35_PositionCarried ==
    TransitionsKeep(LAMBDA s, t, cmd :
        /\ t.physics.current_cell = s.physics.current_cell
        /\ t.physics.target_cell =
              (CASE cmd.type = "Move" /\ cmd.dst # NoCell -> cmd.dst
                 [] cmd.type = "Jump" -> s.physics.current_cell
                 [] OTHER -> s.physics.target_cell)
        /\ t.state_start_time = cmd.timestamp)

\* a Move was accepted and the new state aims at the destination, one row
\* away from the cell carried over
C35_Witness ==
    /\ last.op = "on_command" /\ last.path = "accepted" /\ last.type = "Move"
    /\ last.piece_id \in DOMAIN pieces
    /\ LET s == pieces[last.piece_id].current_state
       IN  /\ s.state = "move"
           /\ s.state_start_time = clock
           /\ s.physics.target_cell # s.physics.current_cell

\* C16: after any sequence of transitions, every target in the current
\* state's transition table is a state of the piece's own graph, never one
\* of the template map and never one of another piece; the table is the one
\* of the state the piece is in.
C16_OwnGraph ==
    \A id \in DOMAIN pieces :
        LET s == pieces[id].current_state
        IN  /\ \A event \in DOMAIN s.transitions : s.transitions[event][1] = id
            /\ \A event \in CommandKinds :
                  event \in DOMAIN s.transitions <=> HasTransition(s.state, event)
            /\ \A event \in DOMAIN s.transitions :
                  s.transitions[event][2] = Target(s.state, event)

\* a piece back in idle after a move, a rest and its timeout
C16_Witness ==
    /\ last.op = "update" /\ last.path = "changed"
    /\ last.piece_id \in DOMAIN pieces
    /\ LET p == pieces[last.piece_id]
       IN  /\ p.current_state.state = "idle"
           /\ p.move_count >= 1
           /\ DOMAIN p.current_state.transitions # {}

----------------------------------------------------------------------------
(* Game: input *)

\* the Piece object of id: in Game.pieces while alive, and as it was when
\* deleted afterwards (Game.selection may still refer to it)
Obj(id) ==
    IF id \in DOMAIN pieces THEN pieces[id] ELSE deleted[id]

cell_of(p) == p.current_state.physics.current_cell

\* the first live piece, in the order of Game.pieces, that satisfies Test
FirstLive(Test(_)) ==
    LET hits == {i \in 1 .. Len(LiveIds) : Test(pieces[LiveIds[i]])}
    IN  IF hits = {} THEN ""
        ELSE LiveIds[CHOOSE i \in hits : \A j \in hits : i <= j]

Sign(a, b) == IF a = b THEN 0 ELSE IF b > a THEN 1 ELSE -1

\* the walk of Game._is_path_blocked from cur towards end_pos; steps left
\* bounds the walk, which no longer meets a piece once it has left the board
RECURSIVE PathWalk(_, _, _, _, _)
PathWalk(cur, end_pos, row_dir, col_dir, left) ==
    IF cur = end_pos THEN "clear"
    ELSE IF \E id \in DOMAIN pieces : cell_of(pieces[id]) = cur THEN "blocked"
    ELSE IF left = 0 THEN "endless"
    ELSE PathWalk(<<cur[1] + row_dir, cur[2] + col_dir>>, end_pos,
                  row_dir, col_dir, left - 1)

\* _is_path_blocked with every piece jumping as the knight does
_is_path_blocked_all_jump(start_pos, end_pos, piece) == "clear"

\* Game._is_path_blocked(start_pos, end_pos, piece)
_is_path_blocked(start_pos, end_pos, piece) ==
    IF piece.piece_type = "N" THEN "clear"
    ELSE LET row_dir == Sign(start_pos[1], end_pos[1])
             col_dir == Sign(start_pos[2], end_pos[2])
         IN  PathWalk(<<start_pos[1] + row_dir, start_pos[2] + col_dir>>,
                      end_pos, row_dir, col_dir, BoardH + BoardW)

\* the pawn rules of Game._select_piece with the has_moved test left out
pawn_blocked_no_first_move_rule(selected, start_pos, pos, target_piece) ==
    LET col_diff == Abs(pos[2] - start_pos[2])
        row_diff == Abs(pos[1] - start_pos[1])
    IN  IF target_piece # ""
        THEN IF col_diff = 0 THEN TRUE
             ELSE IF col_diff = 1 /\ row_diff = 1 THEN FALSE
             ELSE TRUE
        ELSE col_diff # 0

\* the pawn rules of Game._select_piece with a straight capture let through
pawn_blocked_straight_capture(selected, start_pos, pos, target_piece) ==
    LET row_diff == Abs(pos[1] - start_pos[1])
        col_diff == Abs(pos[2] - start_pos[2])
    IN  IF row_diff = 2 /\ selected.has_moved THEN TRUE
        ELSE IF target_piece # ""
        THEN FALSE
        ELSE col_diff # 0

\* the pawn rules of Game._select_piece: move_blocked after the pawn branch
pawn_blocked(selected, start_pos, pos, target_piece) ==
    LET row_diff == Abs(pos[1] - start_pos[1])
        col_diff == Abs(pos[2] - start_pos[2])
    IN  IF row_diff = 2 /\ selected.has_moved THEN TRUE
        ELSE IF target_piece # ""
        THEN IF col_diff = 0 THEN TRUE
             ELSE IF col_diff = 1 /\ row_diff = 1 THEN FALSE
             ELSE TRUE
        ELSE col_diff # 0

\* the second keypress of Game._select_piece: what becomes of the move of
\* the selected piece to the cursor cell pos
move_outcome(selected, pos) ==
    LET start_pos == cell_of(selected)
        valid_moves == get_moves(selected.piece_id, start_pos[1], start_pos[2])
        target_piece == FirstLive(LAMBDA q : cell_of(q) = pos)
        path == _is_path_blocked(start_pos, pos, selected)
    IN  IF pos \notin Range(valid_moves) THEN "not_allowed"
        ELSE IF path = "endless" THEN "endless"
        ELSE IF path = "blocked" THEN "path_blocked"
        ELSE IF \/ /\ selected.piece_type = "P"
                   /\ pawn_blocked(selected, start_pos, pos, target_piece)
                \/ /\ target_piece # ""
                   /\ pieces[target_piece].color = selected.color
        THEN "move_blocked"
        ELSE "queued"

\* queue.Queue.put(item), as user_input_queue.put(cmd) uses it
queue_put(q, item) == Append(q, item)

\* a get() that hands out the newest item
queue_get_newest(q) == [item |-> q[Len(q)], rest |-> SubSeq(q, 1, Len(q) - 1)]

\* queue.Queue.get(), as user_input_queue.get() uses it: the oldest item
\* and the queue without it
queue_get(q) == [item |-> Head(q), rest |-> Tail(q)]

player_color(player) == IF player = "A" THEN "White" ELSE "Black"

\* Game._select_piece(player), first keypress, with the cursor on pos
PickPiece(player, pos) ==
    /\ pc \in {"input", "events"}
    /\ selection[player] = ""
    /\ LET found == FirstLive(LAMBDA q : cell_of(q) = pos
                                          /\ q.color = player_color(player))
       IN  /\ selection' = [selection EXCEPT ![player] = found]
           /\ last' = Call("_select_piece", found, "", FALSE,
                           IF found = "" THEN "none" ELSE "selected")
    /\ UNCHANGED <<pieces, clock, user_input_queue, pc, captured, event_bus,
                   deleted, factory, _should_quit, moves,
                   subscribers, received>>

\* Game._select_piece(player), second keypress, with the cursor on pos
PlaceMove(player, pos) ==
    /\ pc \in {"input", "events"}
    /\ selection[player] # ""
    /\ LET selected == Obj(selection[player])
           start_pos == cell_of(selected)
           outcome == move_outcome(selected, pos)
           cmd == create_move_command(clock, selected.piece_id, start_pos, pos)
       IN  /\ outcome = "queued" => Len(user_input_queue) < MaxQueue
           /\ IF outcome = "endless"
              THEN /\ pc' = "hung"
                   /\ UNCHANGED <<user_input_queue, selection>>
              ELSE /\ pc' = pc
                   /\ user_input_queue' =
                        IF outcome = "queued"
                        THEN queue_put(user_input_queue, cmd)
                        ELSE user_input_queue
                   /\ selection' = [selection EXCEPT ![player] = ""]
           /\ last' = Call("_select_piece", selected.piece_id, "Move",
                           RowDiff(cmd) = 2, outcome)
    /\ UNCHANGED <<pieces, clock, captured, event_bus, deleted, factory,
                   _should_quit, moves,
                   subscribers, received>>

----------------------------------------------------------------------------
(* The input layer on a standing position: a pawn, which may have moved     *)
(* before, and a queen, a rook or a knight, on any two cells                *)

InitSelect ==
    /\ factory = GameFactory
    /\ \E other \in {"QW", "RB", "NW"}, moved \in BOOLEAN :
       \E c1 \in Cells : \E c2 \in Cells \ {c1} :
          pieces = [id \in {"PW", other} |->
                      IF id = "PW"
                      THEN [NewPiece(id, c1) EXCEPT
                               !.has_moved = moved,
                               !.move_count = IF moved THEN 1 ELSE 0]
                      ELSE NewPiece(id, c2)]
    /\ clock = 0
    /\ user_input_queue = <<>>
    /\ selection = InitSelection
    /\ pc = "input"
    /\ last = NoCall
    /\ captured = <<>>
    /\ event_bus = TRUE
    /\ deleted = <<>>
    /\ _should_quit = FALSE
    /\ moves = GameMoves
    /\ subscribers = NoSubscribers
    /\ received = <<>>

KeyPick == \E player \in {"A", "B"}, pos \in Cells : PickPiece(player, pos)

KeyPlace == \E player \in {"A", "B"}, pos \in Cells : PlaceMove(player, pos)

NextSelect == KeyPick \/ KeyPlace

SpecSelect == InitSelect /\ [][NextSelect]_vars

\* C4: whatever the occupancy, the source and the destination,
\* _select_piece queues no Move for a pawn with has_moved set whose move
\* has row_diff = 2.
C4_NoSecondDoubleQueued ==
    \A id \in DOMAIN pieces : \A pos \in Cells :
        LET p == pieces[id]
        IN  (/\ p.piece_type = "P" /\ p.has_moved
             /\ Abs(pos[1] - cell_of(p)[1]) = 2)
            => move_outcome(p, pos) # "queued"

\* a pawn that has moved asked for a two-cell advance along a free column
\* and was refused
C4_Witness ==
    /\ last.op = "_select_piece" /\ last.double /\ last.path = "move_blocked"
    /\ last.piece_id \in DOMAIN pieces
    /\ LET p == pieces[last.piece_id]
       IN  /\ p.piece_type = "P" /\ p.has_moved
           /\ \A id \in DOMAIN pieces : cell_of(pieces[id])[2] = cell_of(p)[2]
                                          => id = p.piece_id

\* the cells strictly between a and b on the straight line that joins them
Between(a, b) ==
    LET n == IF Abs(b[1] - a[1]) > Abs(b[2] - a[2])
             THEN Abs(b[1] - a[1]) ELSE Abs(b[2] - a[2])
    IN  {<<a[1] + k * Sign(a[1], b[1]), a[2] + k * Sign(a[2], b[2])>> :
            k \in 1 .. (n - 1)}

Occupied == {cell_of(pieces[id]) : id \in DOMAIN pieces}

C20_PawnCaptureAndAdvance ==
    \A id \in DOMAIN pieces :
        LET p == pieces[id]
            src == cell_of(p)
        IN  p.piece_type = "P" =>
            \A pos \in Range(get_moves(id, src[1], src[2])) :
                LET row_diff == Abs(pos[1] - src[1])
                    col_diff == Abs(pos[2] - src[2])
                    there == {q \in DOMAIN pieces : cell_of(pieces[q]) = pos}
                IN  move_outcome(p, pos) = "queued" =>
                      /\ (\E q \in there : pieces[q].color # p.color)
                            => col_diff = 1 /\ row_diff = 1
                      /\ there = {} => col_diff = 0
                      /\ col_diff = 0 => there = {}

\* a pawn's diagonal step onto the cell of an opposing piece was queued
C20_Witness ==
    /\ last.op = "_select_piece" /\ last.path = "queued"
    /\ last.piece_id \in DOMAIN pieces
    /\ pieces[last.piece_id].piece_type = "P"
    /\ user_input_queue # <<>>
    /\ LET cmd == user_input_queue[Len(user_input_queue)]
       IN  /\ cmd.piece_id = last.piece_id
           /\ Abs(cmd.dst[2] - cmd.src[2]) = 1 /\ RowDiff(cmd) = 1
           /\ \E q \in DOMAIN pieces :
                 /\ cell_of(pieces[q]) = cmd.dst
                 /\ pieces[q].color # pieces[last.piece_id].color

\* C37: for a piece that is not a knight, standing on its cell, and every
\* cell of the board as destination, aligned with the piece's cell or not,
\* the walk of _is_path_blocked comes to an end.
C37_WalkTerminates ==
    \A id \in DOMAIN pieces : \A end_pos \in Cells :
        pieces[id].piece_type # "N" =>
            _is_path_blocked(cell_of(pieces[id]), end_pos, pieces[id])
                # "endless"

----------------------------------------------------------------------------
(* Game: collisions *)

IdsOf(ps) == SelectSeq(AllIds, LAMBDA id : id \in DOMAIN ps)

pos_of(p) == get_pos(p.current_state.physics)

\* positions[pos] of _resolve_collisions: the pieces grouped at pos, in the
\* order of Game.pieces
pieces_in_cell(ps, pos) == SelectSeq(IdsOf(ps), LAMBDA id : pos_of(ps[id]) = pos)

\* the test that sorts a piece into moving_pieces, and makes it the attacker
is_mover(p) ==
    p.current_state.physics.is_moving \/ p.current_state.state \in {"move", "jump"}

\* the same-colour branch blocking every piece of the colour, the first
\* included, when it cannot tell movers from stationary pieces
blocked_in_all(ps, pos, color) ==
    LET side == SelectSeq(pieces_in_cell(ps, pos), LAMBDA id : ps[id].color = color)
        stationary_pieces == {i \in 1 .. Len(side) : ~is_mover(ps[side[i]])}
        moving_pieces == {i \in 1 .. Len(side) : is_mover(ps[side[i]])}
    IN  IF Len(side) <= 1 THEN {}
        ELSE IF stationary_pieces # {} /\ moving_pieces # {}
        THEN {side[i] : i \in moving_pieces}
        ELSE {side[i] : i \in 1 .. Len(side)}

\* the pieces of one colour at pos that the same-colour branch blocks
blocked_in(ps, pos, color) ==
    LET side == SelectSeq(pieces_in_cell(ps, pos), LAMBDA id : ps[id].color = color)
        stationary_pieces == {i \in 1 .. Len(side) : ~is_mover(ps[side[i]])}
        moving_pieces == {i \in 1 .. Len(side) : is_mover(ps[side[i]])}
    IN  IF Len(side) <= 1 THEN {}
        ELSE IF stationary_pieces # {} /\ moving_pieces # {}
        THEN {side[i] : i \in moving_pieces}
        ELSE {side[i] : i \in 2 .. Len(side)}

\* what the same-colour branch does to a piece it blocks
block_piece(p, now) ==
    on_command([p EXCEPT !.current_state.physics.target_cell =
                              p.current_state.physics.current_cell,
                         !.current_state.physics.is_moving = FALSE],
               create_idle_command(now, p.piece_id), now)

\* the index in occ of the first piece whose last_action_time is largest
\* (smallest when sign = -1): what max and min return
FirstExtreme(ps, occ, sign) ==
    LET key(i) == sign * ps[occ[i]].last_action_time
        best == {i \in 1 .. Len(occ) : \A j \in 1 .. Len(occ) : key(j) <= key(i)}
    IN  CHOOSE i \in best : \A j \in best : i <= j

attacking_piece(ps, occ) ==
    LET movers == {i \in 1 .. Len(occ) : is_mover(ps[occ[i]])}
    IN  IF movers # {}
        THEN occ[CHOOSE i \in movers : \A j \in movers : j <= i]
        ELSE occ[FirstExtreme(ps, occ, 1)]

defending_piece(ps, occ) ==
    LET movers == {i \in 1 .. Len(occ) : is_mover(ps[occ[i]])}
        others == (1 .. Len(occ)) \ movers
    IN  IF movers # {}
        THEN IF others # {}
             THEN occ[CHOOSE i \in others : \A j \in others : j <= i]
             ELSE ""
        ELSE occ[FirstExtreme(ps, occ, -1)]

\* the colour test of the capture branch left out
enemy_collision_any(ps, occ) == Len(occ) > 1

\* the test "white_pieces and black_pieces" of the capture branch
enemy_collision(ps, occ) ==
    /\ \E i \in 1 .. Len(occ) : ps[occ[i]].color = "White"
    /\ \E i \in 1 .. Len(occ) : ps[occ[i]].color = "Black"

\* the capture branch removing every piece of the cell but the attacker
removed_in_all_others(ps, pos) ==
    LET occ == pieces_in_cell(ps, pos)
    IN  IF enemy_collision(ps, occ)
        THEN SelectSeq(occ, LAMBDA id : id # attacking_piece(ps, occ))
        ELSE <<>>

\* the capture branch removing the attacker
removed_in_attacker(ps, pos) ==
    LET occ == pieces_in_cell(ps, pos)
    IN  IF /\ enemy_collision(ps, occ)
           /\ defending_piece(ps, occ) # ""
           /\ attacking_piece(ps, occ) # defending_piece(ps, occ)
        THEN <<attacking_piece(ps, occ)>>
        ELSE <<>>

\* what the capture branch appends to to_remove for the cell pos
removed_in(ps, pos) ==
    LET occ == pieces_in_cell(ps, pos)
    IN  IF /\ enemy_collision(ps, occ)
           /\ defending_piece(ps, occ) # ""
           /\ attacking_piece(ps, occ) # defending_piece(ps, occ)
        THEN <<defending_piece(ps, occ)>>
        ELSE <<>>

RECURSIVE Concat(_)
Concat(seqs) == IF seqs = <<>> THEN <<>> ELSE Head(seqs) \o Concat(Tail(seqs))

\* Game._resolve_collisions at time now: the pieces after the same-colour
\* branches, and to_remove in the order of the cells of positions
_resolve_collisions(ps, now) ==
    LET ps1 == [id \in DOMAIN ps |->
                  IF id \in blocked_in(ps, pos_of(ps[id]), ps[id].color)
                  THEN block_piece(ps[id], now)
                  ELSE ps[id]]
        ids == IdsOf(ps)
        first_of_cell(i) == pieces_in_cell(ps1, pos_of(ps1[ids[i]]))[1] = ids[i]
        per_cell == [i \in 1 .. Len(ids) |->
                       IF first_of_cell(i)
                       THEN removed_in(ps1, pos_of(ps1[ids[i]]))
                       ELSE <<>>]
    IN  [pieces |-> ps1, to_remove |-> Concat(per_cell)]

\* Game._is_win
\* Game_fixed.py, where _is_win returns False whatever the Kings are
_is_win_never(ps) == FALSE

_is_win(ps) == Cardinality({id \in DOMAIN ps : ps[id].piece_type = "K"}) < 2

----------------------------------------------------------------------------
(* Game.run *)

\* what a run of _resolve_collisions leaves in last: the pieces and the
\* number of events published before it
Arbitration(before, events) ==
    [op |-> "_resolve_collisions", before |-> before, events |-> events]

\* the row the explored games are played for
ContestedCells == {c \in Cells : c[1] = 1}

\* the pieces the explored games start from
StartCell(id) ==
    CASE id = "KW" -> <<BoardH - 1, 0>>
      [] id = "QW" -> <<BoardH - 1, 1>>
      [] id = "KB" -> <<1, 0>>
      [] OTHER -> <<0, 1>>

InitGame ==
    /\ factory = GameFactory
    /\ pieces = [id \in {"KW", "QW", "KB"} |-> NewPiece(id, StartCell(id))]
    /\ clock = 0
    /\ user_input_queue = <<>>
    /\ selection = InitSelection
    /\ pc = "begin"
    /\ last = NoCall
    /\ captured = <<>>
    /\ event_bus \in BOOLEAN
    /\ deleted = <<>>
    /\ _should_quit = FALSE
    /\ moves = GameMoves
    /\ subscribers = GameSubscribers(event_bus)
    /\ received = <<>>

\* where the loop test of run leads:
\* while not self._is_win() and not self._should_quit
LoopTest(ps, quit) == IF ~_is_win(ps) /\ ~quit THEN "update" ELSE "done"

\* a run that publishes neither its start nor its end
run_publish_nothing(event_type, now) == received

\* what run publishes when it starts and when it ends:
\* if self.event_bus: self.event_bus.publish(kind, {"time": self.game_time_ms()})
run_publish(event_type, now) ==
    IF event_bus
    THEN publish(subscribers, received, event_type, [time |-> now])
    ELSE received

\* run, before anything else: GAME_STARTED
RunPublishStarted ==
    /\ pc = "begin"
    /\ received' = run_publish("GAME_STARTED", clock)
    /\ pc' = "start"
    /\ last' = Call("publish", "", "GAME_STARTED", FALSE, "")
    /\ UNCHANGED <<pieces, clock, user_input_queue, selection, captured,
                   event_bus, deleted, factory, _should_quit, moves,
                   subscribers>>

\* run, past the loop: GAME_ENDED
RunPublishEnded ==
    /\ pc = "done"
    /\ received' = run_publish("GAME_ENDED", clock)
    /\ pc' = "ended"
    /\ last' = Call("publish", "", "GAME_ENDED", FALSE, "")
    /\ UNCHANGED <<pieces, clock, user_input_queue, selection, captured,
                   event_bus, deleted, factory, _should_quit, moves,
                   subscribers>>

\* run, up to the loop: every piece is reset at the start time
\* the template map after the states in ss have been reset one by one
RECURSIVE TemplatesAfterResets(_, _)
TemplatesAfterResets(f, ss) ==
    IF ss = <<>> THEN f
    ELSE TemplatesAfterResets(TemplatesAfterReset(f, Head(ss)), Tail(ss))

RunStart ==
    /\ pc = "start"
    /\ pieces' = [id \in DOMAIN pieces |-> PieceReset(pieces[id], clock)]
    /\ factory' = TemplatesAfterResets(factory,
                      [i \in 1 .. Len(LiveIds) |->
                          pieces'[LiveIds[i]].current_state])
    /\ pc' = LoopTest(pieces', _should_quit)
    /\ last' = Call("run", "", "", FALSE, "")
    /\ UNCHANGED <<clock, user_input_queue, selection, captured, event_bus,
                   deleted, _should_quit, moves,
                   subscribers, received>>

\* (1) of the loop: every piece is updated with the same now
UpdatePieces ==
    /\ pc = "update"
    /\ \E o \in [DOMAIN pieces -> {"still", "flying", "arrived", "complete"}] :
        /\ \A id \in DOMAIN pieces :
              o[id] \in PhysicsOutcomes(pieces[id].current_state.physics)
        /\ pieces' = [id \in DOMAIN pieces |-> PieceUpdate(pieces[id], clock, o[id])]
    /\ pc' = "events"
    /\ last' = Call("update", "", "", FALSE, "")
    /\ UNCHANGED <<clock, user_input_queue, selection, captured, event_bus,
                   deleted, factory, _should_quit, moves,
                   subscribers, received>>

\* the events one turn of the drain loop publishes for cmd:
\* if self.event_bus: self.event_bus.publish(MOVE_DONE, {"command": cmd})
MoveDone(cmd) ==
    IF event_bus THEN <<[event |-> "MOVE_DONE", command |-> cmd]>> ELSE <<>>

\* what one turn of the drain loop leaves in last: the call of
\* _process_input, the path on_command took, and the events published
Dispatch(cmd, path) ==
    [op |-> "_process_input", piece_id |-> cmd.piece_id, type |-> cmd.type,
     double |-> RowDiff(cmd) = 2, path |-> path, published |-> MoveDone(cmd)]

\* (3) of the loop: one turn of the loop that drains the queue
ProcessInput ==
    /\ pc \in {"events", "drain"}
    /\ user_input_queue # <<>>
    /\ LET cmd == queue_get(user_input_queue).item
       IN  IF cmd.piece_id \in DOMAIN pieces
           THEN /\ pieces' = [pieces EXCEPT ![cmd.piece_id] =
                                 on_command(@, cmd, clock)]
                /\ last' = Dispatch(cmd,
                       on_command_path(pieces[cmd.piece_id], cmd, clock))
           ELSE /\ pieces' = pieces
                /\ last' = Dispatch(cmd, "ignored")
    /\ user_input_queue' = queue_get(user_input_queue).rest
    /\ pc' = "drain"
    /\ UNCHANGED <<clock, selection, captured, event_bus, deleted, factory,
                   _should_quit, moves,
                   subscribers, received>>

\* the drain loop left while commands may still be queued
drained_at_once == TRUE

\* the exit of the loop that drains the queue: user_input_queue.empty()
drained == user_input_queue = <<>>

\* the loop over to_remove deleting the pieces and publishing nothing
PieceCaptured_none(ps, to_remove) == <<>>

\* the events the loop over to_remove publishes, one before each deletion:
\* if self.event_bus: self.event_bus.publish(PIECE_CAPTURED, {"piece": p})
PieceCaptured(ps, to_remove) ==
    IF event_bus
    THEN [i \in 1 .. Len(to_remove) |-> ps[to_remove[i]]]
    ELSE <<>>

\* (5) of the loop and the loop test: the captures of this tick
ResolveCollisions ==
    /\ pc \in {"events", "drain"}
    /\ drained
    /\ LET r == _resolve_collisions(pieces, clock)
           gone == Range(r.to_remove)
       IN  /\ pieces' = [id \in DOMAIN pieces \ gone |-> r.pieces[id]]
           /\ deleted' = [id \in DOMAIN deleted \cup gone |->
                            IF id \in gone THEN r.pieces[id] ELSE deleted[id]]
           /\ captured' = captured \o PieceCaptured(r.pieces, r.to_remove)
    /\ pc' = LoopTest(pieces', _should_quit)
    /\ last' = Arbitration(pieces, Len(captured))
    /\ UNCHANGED <<clock, user_input_queue, selection, event_bus, factory,
                   _should_quit, moves,
                   subscribers, received>>

\* game time advances from one turn of the loop to the next
FrameTick ==
    /\ pc \in {"start", "update"}
    /\ clock + ClockStep <= MaxGameTicks * ClockStep
    /\ Tick

\* (2) of the loop: a player presses select on a piece of theirs at src and
\* then on the cell pos of the contested row, and the move is queued
KeyMoveBy(players, bound) ==
    \E player \in players, src \in Cells, pos \in ContestedCells :
        LET found == FirstLive(LAMBDA q : cell_of(q) = src
                                           /\ q.color = player_color(player))
        IN  /\ pc = "events"
            /\ selection[player] = ""
            /\ found # ""
            /\ move_outcome(pieces[found], pos) = "queued"
            /\ Len(user_input_queue) < bound
            /\ user_input_queue' = queue_put(user_input_queue,
                   create_move_command(clock, found, src, pos))
            /\ last' = Call("_select_piece", found, "Move",
                            Abs(pos[1] - src[1]) = 2, "queued")
            /\ UNCHANGED <<pieces, clock, selection, pc, captured, event_bus,
                           deleted, factory, _should_quit, moves,
                   subscribers, received>>

KeyMoveWithin(bound) == KeyMoveBy({"A", "B"}, bound)

KeyMove == KeyMoveWithin(MaxQueue)

\* (2) of the loop: the window is closed or ESC is pressed
Quit ==
    /\ pc = "events"
    /\ ~_should_quit
    /\ _should_quit' = TRUE
    /\ last' = Call("quit", "", "", FALSE, "")
    /\ UNCHANGED <<pieces, clock, user_input_queue, selection, pc, captured,
                   event_bus, deleted, factory, moves,
                   subscribers, received>>

NextGame ==
    RunPublishStarted \/ FrameTick \/ RunStart \/ UpdatePieces \/ KeyMove
    \/ Quit \/ ProcessInput \/ ResolveCollisions \/ RunPublishEnded

SpecGame == InitGame /\ [][NextGame]_vars

\* the same run with the two Kings and a Black rook behind its King
InitGameRook ==
    /\ factory = GameFactory
    /\ pieces = [id \in {"KW", "KB", "RB"} |->
                    NewPiece(id, IF id = "RB" THEN <<0, 0>> ELSE StartCell(id))]
    /\ clock = 0
    /\ user_input_queue = <<>>
    /\ selection = InitSelection
    /\ pc = "begin"
    /\ last = NoCall
    /\ captured = <<>>
    /\ event_bus \in BOOLEAN
    /\ deleted = <<>>
    /\ _should_quit = FALSE
    /\ moves = GameMoves
    /\ subscribers = GameSubscribers(event_bus)
    /\ received = <<>>

\* (2) of the loop with up to MaxBurst moves queued before the drain
KeyBurst == KeyMoveWithin(MaxBurst)

NextGameRook ==
    RunPublishStarted \/ FrameTick \/ RunStart \/ UpdatePieces \/ KeyBurst
    \/ Quit \/ ProcessInput \/ ResolveCollisions \/ RunPublishEnded

SpecGameRook == InitGameRook /\ [][NextGameRook]_vars

\* the run in which Black selects a piece in one frame and places its move
\* in a later one: the two Kings apart, and a Black rook next to the White
\* King
InitGameHeld ==
    /\ factory = GameFactory
    /\ pieces = [id \in {"KW", "KB", "RB"} |->
                    NewPiece(id, CASE id = "KW" -> <<BoardH - 1, 0>>
                                   [] id = "RB" -> <<1, 0>>
                                   [] OTHER -> <<0, 1>>)]
    /\ clock = 0
    /\ user_input_queue = <<>>
    /\ selection = InitSelection
    /\ pc = "begin"
    /\ last = NoCall
    /\ captured = <<>>
    /\ event_bus \in BOOLEAN
    /\ deleted = <<>>
    /\ _should_quit = FALSE
    /\ moves = GameMoves
    /\ subscribers = GameSubscribers(event_bus)
    /\ received = <<>>

\* (2) of the loop: Black presses select on a piece
HoldPiece == \E pos \in Cells : pc = "events" /\ PickPiece("B", pos)

\* (2) of the loop: Black presses select again, on a cell of the contested
\* row
PlaceHeld == \E pos \in ContestedCells : pc = "events" /\ PlaceMove("B", pos)

\* (2) of the loop: White selects a piece and places its move at once
WhiteMove == KeyMoveBy({"A"}, MaxQueue)

NextGameHeld ==
    RunPublishStarted \/ FrameTick \/ RunStart \/ UpdatePieces \/ WhiteMove
    \/ HoldPiece \/ PlaceHeld \/ ProcessInput \/ ResolveCollisions
    \/ RunPublishEnded

SpecGameHeld == InitGameHeld /\ [][NextGameHeld]_vars

----------------------------------------------------------------------------
(* Properties of the collision arbiter, read in the state a run of         *)
(* _resolve_collisions leaves                                               *)

Arbitrated == last.op = "_resolve_collisions"

\* the pieces grouped at cell when the run began
OccupantsBefore(cell) ==
    {id \in DOMAIN last.before : pos_of(last.before[id]) = cell}

\* the pieces the run deleted from Game.pieces
Removed == DOMAIN last.before \ DOMAIN pieces

\* the payloads of the PIECE_CAPTURED events the run published
Published == SubSeq(captured, last.events + 1, Len(captured))

PublishedFor(cell) ==
    {i \in 1 .. Len(Published) : Published[i].piece_id \in OccupantsBefore(cell)}

SameSide(ids) ==
    \A a \in ids : \A b \in ids : last.before[a].color = last.before[b].color

\* C6: in one run of _resolve_collisions, for every cell, at most one of
\* the pieces occupying the cell is removed; in particular two pieces of
\* the same side are never both removed from one cell.
C6_OneRemovalPerCell ==
    Arbitrated =>
        \A cell \in Cells :
            /\ Cardinality(OccupantsBefore(cell) \cap Removed) <= 1
            /\ \A a \in OccupantsBefore(cell) \cap Removed :
               \A b \in OccupantsBefore(cell) \cap Removed :
                   (a # b) => last.before[a].color # last.before[b].color

\* a run that removed a piece from a cell three pieces stood on
C6_Witness ==
    /\ Arbitrated
    /\ \E cell \in Cells :
          /\ Cardinality(OccupantsBefore(cell)) >= 3
          /\ OccupantsBefore(cell) \cap Removed # {}

\* C7: when all the occupants of a cell with several occupants are of one
\* side, the run removes none of them from the live set and publishes no
\* PIECE_CAPTURED event for the cell.
C7_SameSideNoRemoval ==
    Arbitrated =>
        \A cell \in Cells :
            (/\ Cardinality(OccupantsBefore(cell)) > 1
             /\ SameSide(OccupantsBefore(cell)))
            => /\ OccupantsBefore(cell) \cap Removed = {}
               /\ PublishedFor(cell) = {}

\* a run on a cell shared by a settled piece and a mover of the same side
C7_Witness ==
    /\ Arbitrated
    /\ \E cell \in Cells :
          /\ SameSide(OccupantsBefore(cell))
          /\ \E a \in OccupantsBefore(cell) : is_mover(last.before[a])
          /\ \E b \in OccupantsBefore(cell) : ~is_mover(last.before[b])

\* C8: in a same-side collision on a cell that holds a stationary piece and
\* a mover, the run leaves every mover with its target cell equal to its
\* current cell, is_moving cleared and in state idle, cooldown or not.
C8_MoversForcedIdle ==
    Arbitrated =>
        \A cell \in Cells : \A color \in {"White", "Black"} :
            LET side == {id \in OccupantsBefore(cell) :
                            last.before[id].color = color}
            IN  (/\ \E a \in side : is_mover(last.before[a])
                 /\ \E b \in side : ~is_mover(last.before[b]))
                => \A m \in side :
                      is_mover(last.before[m]) =>
                          LET st == Obj(m).current_state
                          IN  /\ st.physics.target_cell = st.physics.current_cell
                              /\ ~st.physics.is_moving
                              /\ st.state = "idle"

\* the cell holds exactly a mover of one side and a settled piece of the other
Duel(cell, m, d) ==
    /\ OccupantsBefore(cell) = {m, d}
    /\ is_mover(last.before[m])
    /\ ~is_mover(last.before[d])
    /\ last.before[m].color # last.before[d].color

\* the run removed the settled piece and left the mover on the cell
DuelWon(cell, m, d) ==
    /\ d \notin DOMAIN pieces
    /\ m \in DOMAIN pieces
    /\ pos_of(pieces[m]) = cell

\* C9 as stated: a cell with exactly one mover of one side and one settled
\* piece of the other: the settled piece is removed, the mover stays on the
\* cell, and exactly one PIECE_CAPTURED event, carrying the removed piece,
\* is published.
C9_CaptureAlwaysPublished ==
    Arbitrated =>
        \A cell \in Cells : \A m \in DOMAIN last.before : \A d \in DOMAIN last.before :
            Duel(cell, m, d) =>
                /\ DuelWon(cell, m, d)
                /\ Cardinality(PublishedFor(cell)) = 1
                /\ \A i \in PublishedFor(cell) : Published[i] = deleted[d]

\* C9: in that cell the settled piece is removed and the mover stays; a
\* game that has an event bus publishes exactly one PIECE_CAPTURED event,
\* carrying the removed piece, and a game without one publishes none.
C9_Capture ==
    Arbitrated =>
        \A cell \in Cells : \A m \in DOMAIN last.before : \A d \in DOMAIN last.before :
            Duel(cell, m, d) =>
                /\ DuelWon(cell, m, d)
                /\ IF event_bus
                   THEN /\ Cardinality(PublishedFor(cell)) = 1
                        /\ \A i \in PublishedFor(cell) : Published[i] = deleted[d]
                   ELSE Published = <<>>

\* a mover took an idle piece of the other side, and the event went out
C9_Witness ==
    /\ Arbitrated
    /\ event_bus
    /\ \E cell \in Cells : \E m \in DOMAIN last.before : \E d \in DOMAIN last.before :
          /\ Duel(cell, m, d)
          /\ last.before[d].current_state.state = "idle"
          /\ DuelWon(cell, m, d)
          /\ Len(Published) = 1

\* C15: every cell that holds pieces of both sides when the run begins is
\* resolved: one of its occupants, the defender, is removed; no such cell
\* is left with all its occupants alive.
C15_MixedCellResolved ==
    Arbitrated =>
        \A cell \in Cells :
            ~SameSide(OccupantsBefore(cell))
                => OccupantsBefore(cell) \cap Removed # {}

\* the occupants of cell of one colour when the run began, in the order of
\* Game.pieces
SideBefore(cell, color) ==
    SelectSeq(IdsOf(last.before),
              LAMBDA id : /\ pos_of(last.before[id]) = cell
                          /\ last.before[id].color = color)

\* the occupants cannot be split into movers and stationary pieces
Unsplit(side) ==
    \/ \A i \in 1 .. Len(side) : is_mover(last.before[side[i]])
    \/ \A i \in 1 .. Len(side) : ~is_mover(last.before[side[i]])

\* C32: in a same-side collision whose occupants are all movers or all
\* stationary, the run reverts every occupant of that side but the first in
\* iteration order (target cell set to its current cell, is_moving cleared)
\* and leaves the first as it was.
C32_AllButFirstReverted ==
    Arbitrated =>
        \A cell \in Cells : \A color \in {"White", "Black"} :
            LET side == SideBefore(cell, color)
            IN  (Len(side) > 1 /\ Unsplit(side)) =>
                  /\ Obj(side[1]) = last.before[side[1]]
                  /\ \A i \in 2 .. Len(side) :
                        LET ph == Obj(side[i]).current_state.physics
                            was == last.before[side[i]].current_state.physics
                        IN  /\ ph.target_cell = was.current_cell
                            /\ ph.current_cell = was.current_cell
                            /\ ~ph.is_moving

\* two movers of one side met on a cell; the second, still in flight, was
\* stopped and the first flies on
C32_Witness ==
    /\ Arbitrated
    /\ \E cell \in Cells : \E color \in {"White", "Black"} :
          LET side == SideBefore(cell, color)
          IN  /\ Len(side) = 2
              /\ \A i \in 1 .. 2 :
                    last.before[side[i]].current_state.physics.is_moving
              /\ Obj(side[1]).current_state.physics.is_moving
              /\ ~Obj(side[2]).current_state.physics.is_moving
              /\ Obj(side[2]).current_state.physics.target_cell
                    # last.before[side[2]].current_state.physics.target_cell

\* C33: when more than two pieces of both sides occupy a cell, after the
\* run one of them, the attacker, is alive on the cell and every occupant
\* of the other side has been removed, so the cell no longer holds pieces
\* of both sides.
C33_CrowdResolved ==
    Arbitrated =>
        \A cell \in Cells :
            LET occ == OccupantsBefore(cell)
            IN  (Cardinality(occ) > 2 /\ ~SameSide(occ)) =>
                  /\ \E a \in occ \cap DOMAIN pieces :
                        /\ pos_of(pieces[a]) = cell
                        /\ \A d \in occ :
                              last.before[d].color # last.before[a].color
                                  => d \in Removed
                  /\ \A a \in occ \cap DOMAIN pieces :
                     \A b \in occ \cap DOMAIN pieces :
                        pieces[a].color = pieces[b].color

\* C36: in a collision of both sides the piece removed as defender is of
\* the other side than the piece designated attacker: the run never removes
\* a piece of the attacker's side, also from a cell of three or more pieces.
C36_DefenderIsEnemy ==
    Arbitrated =>
        LET r == _resolve_collisions(last.before, clock)
        IN  \A cell \in Cells :
                LET occ == pieces_in_cell(r.pieces, cell)
                IN  \A d \in OccupantsBefore(cell) \cap Removed :
                        r.pieces[d].color
                            # r.pieces[attacking_piece(r.pieces, occ)].color

----------------------------------------------------------------------------
(* Properties of Game.run *)

\* one step of run keeps the order of a tick: update of all the pieces,
\* then the key events, then the dispatch of every queued command, then
\* _resolve_collisions
C12_Step ==
    /\ last'.op = "update" =>
          /\ last.op \in {"run", "tick", "_resolve_collisions"}
          /\ DOMAIN pieces' = DOMAIN pieces
    /\ last'.op \in {"_select_piece", "quit"} =>
          last.op \in {"update", "_select_piece", "quit"}
    /\ last'.op = "_process_input" =>
          last.op \in {"update", "_select_piece", "quit", "_process_input"}
    /\ last'.op = "_resolve_collisions" =>
          /\ last.op \in {"update", "_select_piece", "quit", "_process_input"}
          /\ user_input_queue = <<>>
    /\ last.op = "_process_input" =>
          last'.op \in {"_process_input", "_resolve_collisions"}

Kings(ps) == {id \in DOMAIN ps : ps[id].piece_type = "K"}

\* a tick is executed only with two Kings and no quit before it, and run is
\* past its loop only with a King missing or a quit requested
C18_Phase ==
    /\ pc \in {"update", "events", "drain"} => Cardinality(Kings(pieces)) >= 2
    /\ pc = "update" => ~_should_quit
    /\ pc = "done" => Cardinality(Kings(pieces)) < 2 \/ _should_quit

\* the loop test after arbitration, and after the loop nothing but the
\* publication of the end of the game
C18_Step ==
    /\ pc # "ended"
    /\ pc = "done" => pc' = "ended" /\ last'.op = "publish" /\ pieces' = pieces
    /\ pc \in {"events", "drain"} /\ pc' \notin {"events", "drain"} =>
          /\ last'.op = "_resolve_collisions"
          /\ Cardinality(Kings(pieces')) < 2 => pc' = "done"
          /\ Cardinality(Kings(pieces')) >= 2 /\ ~_should_quit => pc' = "update"
          /\ pc' = "done" => Cardinality(Kings(pieces')) < 2 \/ _should_quit

\* C18: run treats the game as ended exactly when fewer than two Kings are
\* in the live set: once arbitration removes a King no further update,
\* dispatch or arbitration is executed, and while two Kings remain and no
\* quit is requested the loop goes on to its next tick.
C18_EndedIffKingMissing == []C18_Phase /\ [][C18_Step]_vars

\* arbitration has removed a King, nobody asked to quit, and run is past
\* its loop
C18_Witness ==
    /\ pc = "done"
    /\ Arbitrated
    /\ ~_should_quit
    /\ \E id \in Removed : last.before[id].piece_type = "K"

\* C21: _select_piece never queues a Move whose destination cell is
\* occupied, at the time of the keypress, by a piece of the side of the
\* moving piece.
C21_NoFriendlyDestination ==
    (/\ last.op = "_select_piece" /\ last.path = "queued"
     /\ user_input_queue # <<>>)
        => LET cmd == user_input_queue[Len(user_input_queue)]
           IN  \A q \in DOMAIN pieces :
                   cell_of(pieces[q]) = get_target_cell(cmd)
                       => pieces[q].color # Obj(cmd.piece_id).color

\* one step of run treats the queue first in, first out: a keypress adds
\* its command behind the queued ones, a dispatch hands the oldest command,
\* as it was queued, to _process_input and takes just that one off, and no
\* other step touches the queue
C25_Step ==
    LET q == user_input_queue
    IN  \/ /\ user_input_queue' = q
           /\ last'.op # "_process_input" \/ last' = last
        \/ /\ last'.op = "_select_piece"
           /\ Len(user_input_queue') = Len(q) + 1
           /\ SubSeq(user_input_queue', 1, Len(q)) = q
           /\ pieces' = pieces
        \/ /\ last'.op = "_process_input"
           /\ q # <<>>
           /\ user_input_queue' = SubSeq(q, 2, Len(q))
           /\ last'.piece_id = q[1].piece_id
           /\ last'.type = q[1].type
           /\ pieces' = IF q[1].piece_id \in DOMAIN pieces
                        THEN [pieces EXCEPT ![q[1].piece_id] =
                                 on_command(@, q[1], clock)]
                        ELSE pieces

\* every queued command has been dispatched when the tick is over
C25_Drained == pc \in {"update", "done"} => user_input_queue = <<>>

\* C25: the commands put on the input queue are dispatched in exactly the
\* order they were submitted, each exactly once, and none is merged,
\* reordered or cancelled between being queued and being dispatched.
C25_QueueOrder == []C25_Drained /\ [][C25_Step]_vars

\* the first of two commands queued for different pieces has been
\* dispatched and the second waits
C25_Witness ==
    /\ pc = "drain"
    /\ last.op = "_process_input"
    /\ Len(user_input_queue) = 1
    /\ user_input_queue[1].piece_id # last.piece_id

\* C26: a MOVE_DONE event is published at most once per dispatched command
\* and only for a command its piece accepted; a command dropped for
\* cooldown, rest, a missing transition, the pawn rule or a piece no longer
\* alive publishes none.
C26_MoveDoneOnlyAccepted ==
    last.op = "_process_input" =>
        /\ Len(last.published) <= 1
        /\ last.published # <<>> => last.path = "accepted"

\* on_command with a command addressed to another piece changes nothing
\* of the piece, whatever the kind of the command and the time
C34_ForeignCommand ==
    \A id \in DOMAIN pieces : \A now \in ClockValues :
    \A other \in (DOMAIN pieces \cup DOMAIN deleted \cup {""}) \ {id} :
        \A cmd \in {Command(now, other, type, NoCell, NoCell) :
                        type \in CommandKinds}
                   \cup {create_move_command(now, other,
                             cell_of(pieces[id]), dst) : dst \in ContestedCells} :
            on_command(pieces[id], cmd, now) = pieces[id]

\* a turn of the drain loop on a command whose piece is not in Game.pieces
\* changes no piece, and only such a command is ignored
C34_IgnoredDispatch ==
    last'.op = "_process_input" =>
        /\ user_input_queue # <<>>
        /\ LET cmd == Head(user_input_queue)
           IN  /\ cmd.piece_id \notin DOMAIN pieces
                     => pieces' = pieces /\ last'.path = "ignored"
               /\ last'.path = "ignored" => cmd.piece_id \notin DOMAIN pieces

\* C34: on_command with a command whose piece_id is not the piece's changes
\* nothing of the piece (state, timers, flags, motion target), for every
\* command kind and every time; _process_input ignores a command whose
\* piece_id is not in the live set and changes no piece.
C34_NotForThisPiece == []C34_ForeignCommand /\ [][C34_IgnoredDispatch]_vars

\* the move of a rook that was captured while selected has been dispatched
\* and ignored
C34_Witness ==
    /\ last.op = "_process_input" /\ last.path = "ignored"
    /\ last.piece_id = "RB"
    /\ "RB" \in DOMAIN deleted
    /\ "RB" \notin DOMAIN pieces
    /\ selection["B"] = ""

\* the PIECE_CAPTURED events published so far that carry the piece id
CapturedEvents(id) == {i \in 1 .. Len(captured) : captured[i].piece_id = id}

\* every removed piece has exactly one PIECE_CAPTURED event, which carries
\* the piece as it was deleted, and no other such event was published
C38_OneEventEach ==
    /\ \A id \in DOMAIN deleted :
          /\ Cardinality(CapturedEvents(id)) = 1
          /\ \A i \in CapturedEvents(id) : captured[i] = deleted[id]
    /\ Len(captured) = Cardinality(DOMAIN deleted)

\* the same for a game that has an event bus; a game without one publishes
\* nothing
C38_OneEventEachOnBus == IF event_bus THEN C38_OneEventEach ELSE captured = <<>>

\* one step of run: Game.pieces gains no key and loses keys only in
\* _resolve_collisions; a removed piece stays removed and as it was, the
\* drain loop ignores a command for it, and arbitration does not group it
C38_Step ==
    /\ DOMAIN pieces' \subseteq DOMAIN pieces
    /\ DOMAIN pieces' # DOMAIN pieces => last'.op = "_resolve_collisions"
    /\ DOMAIN deleted' = DOMAIN deleted \cup (DOMAIN pieces \ DOMAIN pieces')
    /\ \A id \in DOMAIN deleted :
          /\ id \notin DOMAIN pieces'
          /\ deleted'[id] = deleted[id]
    /\ last'.op = "_process_input" /\ last'.piece_id \in DOMAIN deleted =>
          /\ last'.path = "ignored"
          /\ pieces' = pieces
    /\ last'.op = "_resolve_collisions" =>
          DOMAIN last'.before \cap DOMAIN deleted = {}

\* C38 as stated: the live set only shrinks, and only by arbitration; a
\* removed piece never comes back and is never again updated, dispatched
\* to or arbitrated; exactly one PIECE_CAPTURED event is published for
\* every removed piece.
C38_ShrinksOneEventEach == []C38_OneEventEach /\ [][C38_Step]_vars

\* C38: the live set only shrinks, and only by arbitration; a removed
\* piece never comes back and is never again updated, dispatched to or
\* arbitrated; a game that has an event bus publishes exactly one
\* PIECE_CAPTURED event for every removed piece, and a game without one
\* publishes none.
C38_OnlyShrinks == []C38_OneEventEachOnBus /\ [][C38_Step]_vars

\* the rook was removed and its one event published, and a later
\* arbitration, without the rook, has run
C38_Witness ==
    /\ Arbitrated
    /\ event_bus
    /\ "RB" \in DOMAIN deleted
    /\ "RB" \notin DOMAIN last.before
    /\ Len(captured) = 1

----------------------------------------------------------------------------
(* PieceFactory on any piece directory *)

\* the names a state directory can have
StateNames == {"idle", "move", "jump", "attack", "long_rest", "short_rest"}

NoTemplates == [states |-> {}, edges |-> {}, nodes |-> [name \in {} |-> <<>>]]

InitFactory ==
    /\ pieces = [id \in {} |-> <<>>]
    /\ clock = 0
    /\ user_input_queue = <<>>
    /\ selection = InitSelection
    /\ pc = "factory"
    /\ last = NoCall
    /\ captured = <<>>
    /\ event_bus = TRUE
    /\ deleted = [id \in {} |-> <<>>]
    /\ \E dirs \in SUBSET StateNames :
          factory = [states_dirs |-> dirs, piece_templates |-> NoTemplates]
    /\ _should_quit = FALSE
    /\ moves = GameMoves
    /\ subscribers = NoSubscribers
    /\ received = <<>>

\* PieceFactory._build_templates: the template of the piece directory
BuildTemplates ==
    /\ pc = "factory"
    /\ factory' = [factory EXCEPT
                      !.piece_templates = _build_state_machine(factory.states_dirs)]
    /\ pc' = "built"
    /\ last' = Call("_build_state_machine", "", "", FALSE, "")
    /\ UNCHANGED <<pieces, clock, user_input_queue, selection, captured,
                   event_bus, deleted, _should_quit, moves,
                   subscribers, received>>

\* factory.create_piece on the template just built
CreateFromTemplate ==
    /\ pc = "built"
    /\ DOMAIN pieces = {}
    /\ pieces' = [id \in {"RB"} |-> NewPiece(id, <<0, 0>>)]
    /\ last' = Call("create_piece", "RB", "", FALSE, "")
    /\ UNCHANGED <<clock, user_input_queue, selection, pc, captured,
                   event_bus, deleted, factory, _should_quit, moves,
                   subscribers, received>>

\* the times the state machine of the created piece is asked at
StateTimes == {0, ShortRestMs, LongRestMs}

\* the events of the transition tables and one that is in none
StateEvents == {"Move", "Jump", "Attack", "complete", "timeout", "idle"}

\* current_state.get_state_after_command(cmd, now) on the created piece
CallGetStateAfterCommand ==
    /\ pc = "built"
    /\ \E id \in DOMAIN pieces, type \in StateEvents, now \in StateTimes :
          LET s == pieces[id].current_state
              cmd == IF type = "Move"
                     THEN create_move_command(now, id,
                              s.physics.current_cell, <<1, 0>>)
                     ELSE Command(now, id, type, NoCell, NoCell)
              r == get_state_after_command(s, cmd, now)
          IN  /\ pieces' = [pieces EXCEPT ![id].current_state = r.state]
              /\ last' = Call("get_state_after_command", id, type, FALSE,
                              IF r.changed THEN "changed" ELSE "same")
    /\ UNCHANGED <<clock, user_input_queue, selection, pc, captured,
                   event_bus, deleted, factory, _should_quit, moves,
                   subscribers, received>>

\* current_state.update(now) on the created piece
CallStateUpdate ==
    /\ pc = "built"
    /\ \E id \in DOMAIN pieces, now \in StateTimes :
       \E o \in PhysicsOutcomes(pieces[id].current_state.physics) :
          LET r == StateUpdate(pieces[id].current_state, now, o)
          IN  /\ pieces' = [pieces EXCEPT ![id].current_state = r.state]
              /\ last' = Call("update", id, "", FALSE,
                              IF r.changed THEN "changed" ELSE "same")
    /\ UNCHANGED <<clock, user_input_queue, selection, pc, captured,
                   event_bus, deleted, factory, _should_quit, moves,
                   subscribers, received>>

NextFactory ==
    \/ BuildTemplates
    \/ CreateFromTemplate
    \/ CallGetStateAfterCommand
    \/ CallStateUpdate

SpecFactory == InitFactory /\ [][NextFactory]_vars

\* the states that can be reached from state a along the edges
RECURSIVE ReachFrom(_, _, _)
ReachFrom(edges, seen, left) ==
    LET more == seen \cup {e[3] : e \in {x \in edges : x[1] \in seen}}
    IN  IF left = 0 \/ more = seen THEN seen
        ELSE ReachFrom(edges, more, left - 1)

\* C17: for every set of declared state directories, the empty set
\* included, the state map of _build_state_machine contains idle, move and
\* long_rest with idle --Move--> move, move --complete--> long_rest and
\* long_rest --timeout--> idle, so each of the three reaches the others.
C17_MinimumGraph ==
    pc = "built" =>
        LET t == factory.piece_templates
        IN  /\ {"idle", "move", "long_rest"} \subseteq t.states
            /\ <<"idle", "Move", "move">> \in t.edges
            /\ <<"move", "complete", "long_rest">> \in t.edges
            /\ <<"long_rest", "timeout", "idle">> \in t.edges
            /\ \A a \in {"idle", "move", "long_rest"} :
                  {"idle", "move", "long_rest"}
                      \subseteq ReachFrom(t.edges, {a}, Cardinality(t.states))
            /\ \A e \in t.edges : e[1] \in t.states /\ e[3] \in t.states

\* the template built for a piece directory without any state directory
C17_Witness ==
    /\ pc = "built"
    /\ factory.states_dirs = {}
    /\ factory.piece_templates.states = {"idle", "move", "long_rest"}

\* the rest configuration a state of this name has
RestAsNamed(name, s) ==
    /\ s.is_rest_state = (name \in {"long_rest", "short_rest"})
    /\ s.rest_duration_ms = (CASE name = "long_rest" -> 2000
                               [] name = "short_rest" -> 1000
                               [] OTHER -> s.rest_duration_ms)

\* C28: in every template the factory builds, for the states read from the
\* state directories and for the synthesized ones alike, long_rest is a rest
\* state of 2000 ms, short_rest a rest state of 1000 ms and no other state
\* is a rest state; the state create_piece starts a piece in and the state
\* every transition produces carry these values for their name.
C28_RestMetadata ==
    pc = "built" =>
        /\ \A name \in factory.piece_templates.states :
              RestAsNamed(name, factory.piece_templates.nodes[name])
        /\ \A id \in DOMAIN pieces :
              RestAsNamed(pieces[id].current_state.state,
                          pieces[id].current_state)

\* a piece made from a template whose long_rest was synthesized and whose
\* short_rest was declared has come to rest in long_rest
C28_Witness ==
    /\ pc = "built"
    /\ "long_rest" \notin factory.states_dirs
    /\ "short_rest" \in factory.states_dirs
    /\ last.op = "update" /\ last.path = "changed"
    /\ \E id \in DOMAIN pieces :
          /\ pieces[id].current_state.state = "long_rest"
          /\ pieces[id].current_state.is_rest_state
          /\ pieces[id].current_state.rest_duration_ms = 2000

\* the edges between the states present, as the wiring rules list them
WiredEdges(states) ==
    {e \in states \X StateEvents \X states :
        \/ e = <<"idle", "Move", "move">>
        \/ e = <<"idle", "Jump", "jump">>
        \/ e = <<"idle", "Attack", "attack">>
        \/ e = <<"move", "complete", "long_rest">>
        \/ e = <<"move", "complete", "idle">> /\ "long_rest" \notin states
        \/ e = <<"jump", "complete", "short_rest">>
        \/ e = <<"jump", "complete", "idle">> /\ "short_rest" \notin states
        \/ e = <<"long_rest", "timeout", "idle">>
        \/ e = <<"short_rest", "timeout", "idle">>
        \/ e = <<"attack", "complete", "idle">>}

\* C29: for every set of states present, _setup_transitions wires exactly
\* these edges between states that exist and no others: idle->move on Move,
\* idle->jump on Jump, idle->attack on Attack, move->long_rest on complete
\* (move->idle only without long_rest), jump->short_rest on complete (else
\* jump->idle), long_rest->idle and short_rest->idle on timeout,
\* attack->idle on complete; and the template the factory caches has
\* exactly the edges of its states.
C29_ExactEdges ==
    /\ pc = "factory" =>
          \A states \in SUBSET StateNames :
              _setup_transitions(states) = WiredEdges(states)
    /\ pc = "built" =>
          factory.piece_templates.edges
              = WiredEdges(factory.piece_templates.states)

\* a template with jump and attack but no short_rest: the jump falls back
\* to idle
C29_Witness ==
    /\ pc = "built"
    /\ factory.piece_templates.states
          = {"idle", "move", "long_rest", "jump", "attack"}
    /\ <<"jump", "complete", "idle">> \in factory.piece_templates.edges
    /\ <<"idle", "Attack", "attack">> \in factory.piece_templates.edges
    /\ Cardinality(factory.piece_templates.edges) = 7

----------------------------------------------------------------------------
(* Moves.get_moves on any move table *)

\* the longest moves.txt explored
MaxTableLen == 2

\* the dr and dc a line of moves.txt can hold
DeltaValues == {-1, 0, 1, 2}

RECURSIVE Tables(_)
Tables(n) ==
    IF n = 0 THEN {<<>>}
    ELSE LET shorter == Tables(n - 1)
         IN  shorter \cup {Append(t, <<dr, dc>>) :
                              t \in {x \in shorter : Len(x) = n - 1},
                              dr \in DeltaValues, dc \in DeltaValues}

\* Moves.__init__: one Moves object, read from any moves.txt, on a board
\* that is empty or holds one piece
InitMoves ==
    /\ factory = GameFactory
    /\ \/ pieces = [id \in {} |-> <<>>]
       \/ pieces = [id \in {"RB"} |-> NewPiece(id, <<0, 0>>)]
    /\ clock = 0
    /\ user_input_queue = <<>>
    /\ selection = InitSelection
    /\ pc = "moves"
    /\ last = NoCall
    /\ captured = <<>>
    /\ event_bus = TRUE
    /\ deleted = [id \in {} |-> <<>>]
    /\ _should_quit = FALSE
    /\ \E d \in Tables(MaxTableLen) : moves = [id \in {"table"} |-> d]
    /\ subscribers = NoSubscribers
    /\ received = <<>>

\* a call of get_moves(r, c)
CallGetMoves ==
    /\ pc = "moves"
    /\ \E cell \in Cells :
          last' = [op |-> "get_moves", r |-> cell[1], c |-> cell[2],
                   result |-> Moves_get_moves(moves["table"], cell[1], cell[2])]
    /\ UNCHANGED <<pieces, clock, user_input_queue, selection, pc, captured,
                   event_bus, deleted, factory, _should_quit, moves,
                   subscribers, received>>

NextMoves == CallGetMoves

SpecMoves == InitMoves /\ [][NextMoves]_vars

\* the lines of the table d that lead from (r, c) to a cell of the board
LinesInBounds(d, r, c) ==
    {i \in 1 .. Len(d) : /\ 0 <= r + d[i][1] /\ r + d[i][1] < BoardH
                         /\ 0 <= c + d[i][2] /\ c + d[i][2] < BoardW}

\* C22: get_moves(r, c) returns exactly the cells (r+dr, c+dc), in table
\* order, with 0 <= r+dr < board_height and 0 <= c+dc < board_width; no
\* cell off the board, whatever stands on the board, and the same on every
\* call.
C22_GetMovesInBounds ==
    last.op = "get_moves" =>
        LET d == moves["table"]
            keep == LinesInBounds(d, last.r, last.c)
            line(k) == CHOOSE i \in keep :
                           Cardinality({j \in keep : j < i}) = k - 1
        IN  /\ Len(last.result) = Cardinality(keep)
            /\ \A k \in 1 .. Len(last.result) :
                  /\ last.result[k] \in Cells
                  /\ last.result[k] = <<last.r + d[line(k)][1],
                                        last.c + d[line(k)][2]>>
            /\ last.result = Moves_get_moves(d, last.r, last.c)

\* a call on an occupied board whose table has a line that leaves the board
\* and a later line that stays on it
C22_Witness ==
    /\ last.op = "get_moves"
    /\ pieces # <<>>
    /\ Len(moves["table"]) = 2
    /\ LinesInBounds(moves["table"], last.r, last.c) = {2}
    /\ last.result # <<>>

----------------------------------------------------------------------------
(* EventBus on its own: subscribers come and go between publications *)

\* longest list of subscribers of one event type explored
MaxSubscriptions == 2
\* most calls of update explored
MaxReceived == 2

BusEventTypes == {"GAME_STARTED", "MOVE_DONE"}
BusSubscribers == {"sound", "score"}
BusData == {[time |-> 0], [time |-> ClockStep]}

\* the subscribers of event_type, in the order they subscribed
Subscribed(subs, event_type) ==
    IF event_type \in DOMAIN subs THEN subs[event_type] ELSE <<>>

\* what a call of the bus leaves in last
BusCall(op, event_type, subscriber, data, path) ==
    [op |-> op, event_type |-> event_type, subscriber |-> subscriber,
     data |-> data, path |-> path]

InitBus ==
    /\ factory = GameFactory
    /\ pieces = [id \in {} |-> <<>>]
    /\ clock = 0
    /\ user_input_queue = <<>>
    /\ selection = InitSelection
    /\ pc = "bus"
    /\ last = NoCall
    /\ captured = <<>>
    /\ event_bus = TRUE
    /\ deleted = [id \in {} |-> <<>>]
    /\ _should_quit = FALSE
    /\ moves = GameMoves
    /\ subscribers = NoSubscribers
    /\ received = <<>>

CallSubscribe ==
    \E event_type \in BusEventTypes, subscriber \in BusSubscribers :
        /\ Len(Subscribed(subscribers, event_type)) < MaxSubscriptions
        /\ subscribers' = subscribe(subscribers, event_type, subscriber)
        /\ last' = BusCall("subscribe", event_type, subscriber, <<>>, "")
        /\ UNCHANGED <<pieces, clock, user_input_queue, selection, pc,
                       captured, event_bus, deleted, factory, _should_quit,
                       moves, received>>

CallUnsubscribe ==
    \E event_type \in BusEventTypes, subscriber \in BusSubscribers :
        /\ IF unsubscribe_raises(subscribers, event_type, subscriber)
           THEN /\ subscribers' = subscribers
                /\ last' = BusCall("unsubscribe", event_type, subscriber,
                                   <<>>, "ValueError")
           ELSE /\ subscribers' = unsubscribe(subscribers, event_type,
                                              subscriber)
                /\ last' = BusCall("unsubscribe", event_type, subscriber,
                                   <<>>, "")
        /\ UNCHANGED <<pieces, clock, user_input_queue, selection, pc,
                       captured, event_bus, deleted, factory, _should_quit,
                       moves, received>>

CallPublish ==
    \E event_type \in BusEventTypes, data \in BusData :
        /\ Len(received) + Len(Subscribed(subscribers, event_type))
              <= MaxReceived
        /\ received' = publish(subscribers, received, event_type, data)
        /\ last' = BusCall("publish", event_type, "", data, "")
        /\ UNCHANGED <<pieces, clock, user_input_queue, selection, pc,
                       captured, event_bus, deleted, factory, _should_quit,
                       moves, subscribers>>

NextBus == CallSubscribe \/ CallUnsubscribe \/ CallPublish

SpecBus == InitBus /\ [][NextBus]_vars

\* how many times x is in the list l
Count(l, x) == Cardinality({i \in 1 .. Len(l) : l[i] = x})

\* the calls of update made in the step
NewlyReceived == SubSeq(received', Len(received) + 1, Len(received'))

\* publish calls update once for every entry of the list of the event
\* type, in the order of the list, with the event type and the data it was
\* given, and calls nothing else
C39_Publish ==
    last'.op = "publish" =>
        LET listed == Subscribed(subscribers, last'.event_type)
        IN  /\ Len(received') = Len(received) + Len(listed)
            /\ SubSeq(received', 1, Len(received)) = received
            /\ \A i \in 1 .. Len(listed) :
                  NewlyReceived[i]
                      = Update(listed[i], last'.event_type, last'.data)
            /\ \A s \in BusSubscribers :
                  Count(listed, s) = 0 =>
                      \A i \in 1 .. Len(NewlyReceived) :
                          NewlyReceived[i].subscriber # s
            /\ subscribers' = subscribers

\* subscribe puts the subscriber behind those of the event type, and
\* unsubscribe takes its first entry out, leaving the others in order; a
\* subscriber whose only entry is taken out is no longer listed; neither
\* touches another event type nor calls update
C39_Subscriptions ==
    last'.op \in {"subscribe", "unsubscribe"} =>
        LET before == Subscribed(subscribers, last'.event_type)
            after == Subscribed(subscribers', last'.event_type)
            s == last'.subscriber
            others(l) == SelectSeq(l, LAMBDA x : x # s)
        IN  /\ received' = received
            /\ \A k \in BusEventTypes \ {last'.event_type} :
                  Subscribed(subscribers', k) = Subscribed(subscribers, k)
            /\ last'.op = "subscribe" => after = Append(before, s)
            /\ last'.op = "unsubscribe" =>
                  /\ Count(after, s)
                        = IF Count(before, s) = 0 THEN 0
                          ELSE Count(before, s) - 1
                  /\ others(after) = others(before)
                  /\ Count(before, s) = 1 => Count(after, s) = 0

\* C39: publish(kind, data) calls update exactly once per subscription on
\* every subscriber currently subscribed to the kind, in subscription
\* order, and on no subscriber of another kind; once unsubscribe has
\* removed the only subscription of a subscriber it receives no later event
\* of the kind; publishing a kind nobody subscribes to delivers nothing.
C39_FanOut == [][C39_Publish /\ C39_Subscriptions]_vars

\* sound received the start of a game and unsubscribed; the start of the
\* next one went to score alone, while sound still listens to MOVE_DONE
C39_Witness ==
    /\ last.op = "publish" /\ last.event_type = "GAME_STARTED"
    /\ Subscribed(subscribers, "GAME_STARTED") = <<"score">>
    /\ Subscribed(subscribers, "MOVE_DONE") = <<"sound">>
    /\ Len(received) = 2
    /\ received[1].subscriber = "sound"
    /\ received[1].event_type = "GAME_STARTED"
    /\ received[2] = Update("score", "GAME_STARTED", last.data)

----------------------------------------------------------------------------
(* Game.run and the events of the start and of the end of the game *)

\* the calls of update received for event_type
EventsOf(event_type) ==
    {i \in 1 .. Len(received) : received[i].event_type = event_type}

\* GAME_STARTED is out and GAME_ENDED is not
InGame == EventsOf("GAME_STARTED") # {} /\ EventsOf("GAME_ENDED") = {}

\* what run has published where it stands: GAME_STARTED once, first, as
\* soon as run has begun and before any call on a piece; GAME_ENDED once,
\* last, when run is past its loop
C40_Phase ==
    /\ Cardinality(EventsOf("GAME_STARTED")) = IF pc = "begin" THEN 0 ELSE 1
    /\ Cardinality(EventsOf("GAME_ENDED")) = IF pc = "ended" THEN 1 ELSE 0
    /\ Len(received) = Cardinality(EventsOf("GAME_STARTED"))
                          + Cardinality(EventsOf("GAME_ENDED"))
    /\ received # <<>> => received[1].event_type = "GAME_STARTED"
    /\ pc = "begin" => last = NoCall /\ captured = <<>>

\* the same for a game that has an event bus; without one nothing is
\* published
C40_PhaseOnBus == IF event_bus THEN C40_Phase ELSE received = <<>>

\* a step that resets, updates, selects, dispatches or arbitrates, or that
\* publishes MOVE_DONE or PIECE_CAPTURED
PlaysOn ==
    \/ last'.op \in {"run", "update", "_select_piece", "quit",
                      "_process_input", "_resolve_collisions"}
    \/ captured' # captured

\* every such step comes after GAME_STARTED and before GAME_ENDED, and no
\* step at all comes after GAME_ENDED
C40_Step ==
    /\ EventsOf("GAME_ENDED") = {}
    /\ pc # "ended"
    /\ PlaysOn => InGame

\* the same for a game that has an event bus
C40_StepOnBus ==
    /\ EventsOf("GAME_ENDED") = {}
    /\ pc # "ended"
    /\ PlaysOn /\ event_bus => InGame

\* C40 as stated: in every run GAME_STARTED is published exactly once and
\* before any piece is reset, updated or dispatched to, GAME_ENDED exactly
\* once and after the last tick, and no PIECE_CAPTURED or MOVE_DONE before
\* the one or after the other.
C40_LifecycleAlways == []C40_Phase /\ [][C40_Step]_vars

\* C40: in every run of a game that has an event bus GAME_STARTED is
\* published exactly once and before any piece is reset, updated or
\* dispatched to, GAME_ENDED exactly once and after the last tick, and no
\* PIECE_CAPTURED or MOVE_DONE before the one or after the other; a game
\* without an event bus publishes neither.
C40_Lifecycle == []C40_PhaseOnBus /\ [][C40_StepOnBus]_vars

\* a game with a bus that ended by a capture: its start, then the capture,
\* then its end, at a later time, were published
C40_Witness ==
    /\ pc = "ended"
    /\ event_bus
    /\ Len(captured) = 1
    /\ Len(received) = 2
    /\ received[1].event_type = "GAME_STARTED"
    /\ received[2].event_type = "GAME_ENDED"
    /\ received[2].data.time > received[1].data.time

====
